---- MODULE Spec2Model ----
(***************************************************************************)
(* Model of the market-data service (backend/app): the cache gateway, the  *)
(* geocoder, the six-task fan-out of get_market_data_for_address, the      *)
(* chunked ACS fetch, the trend assembler, the projection, the response    *)
(* assembly and the Census API limiter.                                    *)
(*                                                                         *)
(* Python values are encoded as tuples so that every comparison is between *)
(* tuples:  None = <<>>,  the int n = <<n>>,  a float with a fractional    *)
(* part n + d/10 = <<n, d>>.  A dict is a function from its keys to such   *)
(* values, wrapped once more (<<dict>>) where the code may hold None        *)
(* instead of the dict.                                                     *)
(***************************************************************************)
EXTENDS Integers, Sequences, FiniteSets, TLC

VARIABLES
    pc,          \* position of the request in get_market_data_for_address
    geo,         \* geo_info returned by _geocode_address (<<>> before)
    results,     \* task name -> result of the fan-out task ("pending" before it settles)
    upstream,    \* task name -> "pending" | "ok" | "failed": what the task's upstream calls did (history)
    early,       \* a mandatory task failed while other tasks were in flight (history)
    response_data, \* the record built by _format_response_data (<<>> before)
    response,    \* what the caller of the endpoint receives
    cache,       \* rows of the population_cache table: address_key -> response_data
    req,         \* cache-gateway view: request -> [pc, address, outcome, ...]
    sem,         \* limiter view: the service's semaphore and its fetch tasks
    calc         \* one call of a pure function: [op, args, out, done]

vars == <<pc, geo, results, upstream, early, response_data, response, cache, req, sem, calc>>

-----------------------------------------------------------------------------
(* Python values *)

None == <<>>
Some(x) == <<x>>
IsNone(v) == Len(v) = 0
IsInt(v) == Len(v) = 1
IsFloat(v) == Len(v) = 2
Val(v) == v[1]

\* the result of a coroutine as asyncio.gather(return_exceptions=True) hands it over
Ret(v) == [tag |-> "ret", val |-> v, err |-> ""]
Exc(e) == [tag |-> "exc", val |-> None, err |-> e]
Pending == [tag |-> "pending", val |-> None, err |-> ""]
IsException(r) == r.tag = "exc"

Min(a, b) == IF a < b THEN a ELSE b

RECURSIVE Gcd(_, _)
Gcd(a, b) == IF b = 0 THEN a ELSE Gcd(b, a % b)

\* Python's round() of the non-negative rational num/den: ties go to the even integer
RoundHalfEven(num, den) ==
    LET q == num \div den
        r == num % den
    IN  IF 2 * r < den THEN q
        ELSE IF 2 * r > den THEN q + 1
        ELSE IF q % 2 = 0 THEN q ELSE q + 1

EmptyDict == [k \in {} |-> None]
\* dict.update
Update(d, e) == [k \in (DOMAIN d) \cup (DOMAIN e) |-> IF k \in DOMAIN e THEN e[k] ELSE d[k]]
\* dict.get(key, default)
Get(d, k, default) == IF k \in DOMAIN d THEN d[k] ELSE default

-----------------------------------------------------------------------------
(* Constants of census_service.py *)

LATEST_ACS_YEAR == 2023
HISTORICAL_YEARS_COUNT == 5
SemaphoreCapacity == 10
DefaultChunkSize == 49
NumAcsVars == 61
ProjectionYears == 3

\* ACS_VARS.keys() in dict order; the codes are numbered 1..61 in that order
ACS_VARS == [i \in 1..NumAcsVars |-> i]
NAME == 0
B01003_001E == 1
B01002_001E == 2
B19013_001E == 3
B25003_001E == 4
B25003_003E == 5
B15003_001E == 6
\* B15003_022E..025E
EduBachelorsVars == 7..10
B25010_001E == 11
B25077_001E == 12
B25064_001E == 13
B01001_002E == 14
B01001_026E == 15
\* B01001_003E..006E (male) and B01001_027E..030E (female)
Under18Vars == (16..19) \cup (39..42)
\* B01001_007E..012E and B01001_031E..036E
Age18To34Vars == (20..25) \cup (43..48)
\* B01001_013E..019E and B01001_037E..043E
Age35To64Vars == (26..32) \cup (49..55)
\* B01001_020E..025E and B01001_044E..049E
Over65Vars == (33..38) \cup (56..61)

TaskNames == <<"latest_year_tract_data", "historical_tract_trend", "county_trend",
               "county_drivers", "migration_flows", "walkability">>
Tasks == {TaskNames[i] : i \in 1..Len(TaskNames)}
MandatoryTasks == {"latest_year_tract_data", "historical_tract_trend", "county_trend"}
OptionalTasks == Tasks \ MandatoryTasks

\* historical_years = range(LATEST - COUNT + 1, LATEST + 1)
historical_years == [i \in 1..HISTORICAL_YEARS_COUNT |->
                        LATEST_ACS_YEAR - HISTORICAL_YEARS_COUNT + i]

\* fields the Settings class declares
SettingsFields == {"ENVIRONMENT", "LOG_LEVEL", "POSTGRES_USER", "POSTGRES_PASSWORD",
                   "POSTGRES_HOST", "POSTGRES_PORT", "POSTGRES_DB", "CENSUS_API_KEY",
                   "GEOCODING_API_KEY"}

-----------------------------------------------------------------------------
(* What the collaborators answer.  A Census body is described by what it    *)
(* holds for the population variable; every other count is 1.              *)

\* population of the tract / the county in the ACS release of a year
SamplePopulation(geo_level, year) ==
    IF geo_level = "tract" THEN 5 + (year - (LATEST_ACS_YEAR - HISTORICAL_YEARS_COUNT))
    ELSE 2 ^ (year - (LATEST_ACS_YEAR - HISTORICAL_YEARS_COUNT))

\* status: "ok" (a body with a data row), "nodata" (204, or a body without a
\* data row), "error" (HTTP error status, timeout, connection error).
\* pop: the population cell is an integer string, a negative sentinel or a
\* decimal string.
AcsResponses ==
    {[status |-> "ok", pop |-> p] : p \in {"int", "neg", "frac"}}
        \cup {[status |-> s, pop |-> "int"] : s \in {"nodata", "error"}}

\* one cell of the data row: [kind, neg, whole, tenths]
RawCell(geo_level, year, code, resp) ==
    IF code # B01003_001E THEN [kind |-> "num", neg |-> FALSE, whole |-> 1, tenths |-> 0]
    ELSE IF resp.pop = "neg"
         THEN [kind |-> "num", neg |-> TRUE, whole |-> 666666666, tenths |-> 0]
    ELSE IF resp.pop = "frac"
         THEN [kind |-> "num", neg |-> FALSE,
               whole |-> SamplePopulation(geo_level, year), tenths |-> 5]
    ELSE [kind |-> "num", neg |-> FALSE,
          whole |-> SamplePopulation(geo_level, year), tenths |-> 0]

\* the name of the geography in every body
GeographyName == 7

\* lines 405-421: the conversion of one cell
ParseCell(cell) ==
    IF cell.kind = "null" THEN None
    ELSE IF cell.kind # "num" THEN None
    ELSE IF cell.neg THEN None
    ELSE IF cell.tenths = 0 THEN <<cell.whole>>
    ELSE <<cell.whole, cell.tenths>>

\* _fetch_acs_data: None unless the call answered with a data row
fetch_acs_data(year, geo_level, variables, resp) ==
    IF resp.status # "ok" THEN Ret(None)
    ELSE Ret(Some([c \in {NAME} \cup {variables[i] : i \in 1..Len(variables)} |->
                    IF c = NAME THEN <<GeographyName>>
                    ELSE ParseCell(RawCell(geo_level, year, c, resp))]))

\* chunks that only cover the full widths: the rest of the list is lost
ChunkVariablesFullOnly(variables, chunk_size) ==
    [k \in 1..(Len(variables) \div chunk_size) |->
        SubSeq(variables, (k - 1) * chunk_size + 1, k * chunk_size)]

\* variables[i:i + chunk_size] for i in range(i, len(variables), chunk_size)
RECURSIVE ChunksFrom(_, _, _)
ChunksFrom(variables, chunk_size, i) ==
    IF i >= Len(variables) THEN <<>>
    ELSE <<SubSeq(variables, i + 1, Min(i + chunk_size, Len(variables)))>>
            \o ChunksFrom(variables, chunk_size, i + chunk_size)

\* _chunk_variables
chunk_variables(variables, chunk_size) == ChunksFrom(variables, chunk_size, 0)

\* the merge loop of _fetch_large_acs_dataset over results[1..i]; "abort" when a
\* result is an exception
RECURSIVE MergeChunks(_, _)
MergeChunks(chunk_results, i) ==
    IF i = 0 THEN [abort |-> FALSE, merged |-> EmptyDict]
    ELSE LET before == MergeChunks(chunk_results, i - 1)
             result == chunk_results[i]
         IN  IF before.abort \/ IsException(result)
             THEN [abort |-> TRUE, merged |-> EmptyDict]
             ELSE IF ~IsNone(result.val)
                  THEN [abort |-> FALSE, merged |-> Update(before.merged, Val(result.val))]
                  ELSE before

\* the order in which the awaitables were passed
Identity(n) == [i \in 1..n |-> i]

\* a gather that hands the results over in the order the tasks completed
GatherAsCompleted(task_results, completion_order) ==
    [i \in 1..Len(task_results) |-> task_results[completion_order[i]]]

\* asyncio.gather(*tasks, return_exceptions=True): the results come in the
\* order of the awaitables, whatever the order the tasks completed in
gather(task_results, completion_order) == task_results

\* lines 278-292: from the gathered chunk results to the merged VariableMap
merge_chunks(chunk_results) ==
    LET m == MergeChunks(chunk_results, Len(chunk_results))
    IN  IF m.abort THEN Ret(None)
        ELSE IF DOMAIN m.merged = {} \/ NAME \notin DOMAIN m.merged THEN Ret(None)
        ELSE Ret(Some(m.merged))

\* _fetch_large_acs_dataset, given the answer to each chunk's call
fetch_large_acs_dataset(year, geo_level, variables, resps) ==
    LET variable_chunks == chunk_variables(variables, DefaultChunkSize)
        chunk_results == [k \in 1..Len(variable_chunks) |->
                            fetch_acs_data(year, geo_level, variable_chunks[k], resps[k])]
    IN  merge_chunks(gather(chunk_results, Identity(Len(chunk_results))))

\* PopulationTrendPoint
PopulationTrendPoint(year, population, is_projection) ==
    [year |-> year, population |-> population, is_projection |-> is_projection]

\* insertion of a point behind the points whose year is not larger (stable)
RECURSIVE InsertByYear(_, _)
InsertByYear(sorted, p) ==
    IF sorted = <<>> THEN <<p>>
    ELSE IF Head(sorted).year <= p.year THEN <<Head(sorted)>> \o InsertByYear(Tail(sorted), p)
    ELSE <<p>> \o sorted

\* sorted(trend, key=year) / list.sort(key=year)
RECURSIVE SortByYear(_)
SortByYear(points) ==
    IF points = <<>> THEN <<>>
    ELSE InsertByYear(SortByYear(SubSeq(points, 1, Len(points) - 1)), points[Len(points)])

\* a comprehension that keeps the year of every dict, whatever its population
RECURSIVE TrendPointsKeepNull(_, _, _)
TrendPointsKeepNull(years, year_results, i) ==
    IF i = 0 THEN [invalid |-> FALSE, trend |-> <<>>]
    ELSE LET before == TrendPointsKeepNull(years, year_results, i - 1)
             res == year_results[i]
         IN  IF before.invalid THEN before
             ELSE IF IsException(res) \/ IsNone(res.val) THEN before
             ELSE IF ~IsInt(Get(Val(res.val), B01003_001E, <<0>>))
                  THEN [invalid |-> TRUE, trend |-> <<>>]
             ELSE [invalid |-> FALSE,
                   trend |-> Append(before.trend,
                        PopulationTrendPoint(years[i],
                            Val(Get(Val(res.val), B01003_001E, <<0>>)), FALSE))]

\* the list comprehension of _fetch_population_trend_acs over results[1..i]:
\* "invalid" when PopulationTrendPoint rejects a population that is no integer
RECURSIVE TrendPoints(_, _, _)
TrendPoints(years, year_results, i) ==
    IF i = 0 THEN [invalid |-> FALSE, trend |-> <<>>]
    ELSE LET before == TrendPoints(years, year_results, i - 1)
             res == year_results[i]
             keep == /\ ~IsException(res)
                     /\ ~IsNone(res.val)
                     /\ ~IsNone(Get(Val(res.val), B01003_001E, None))
         IN  IF before.invalid THEN before
             ELSE IF ~keep THEN before
             ELSE IF ~IsInt(Val(res.val)[B01003_001E])
                  THEN [invalid |-> TRUE, trend |-> <<>>]
             ELSE [invalid |-> FALSE,
                   trend |-> Append(before.trend,
                        PopulationTrendPoint(years[i], Val(Val(res.val)[B01003_001E]), FALSE))]

\* lines 549-554: from the gathered per-year results to the sorted trend
assemble_trend(years, year_results) ==
    LET t == TrendPoints(years, year_results, Len(years))
    IN  IF t.invalid THEN Exc("ValidationError") ELSE Ret(SortByYear(t.trend))

\* _fetch_population_trend_acs, given the answer to each year's call
fetch_population_trend_acs(years, geo_level, resps) ==
    assemble_trend(years, gather([i \in 1..Len(years) |->
                                    fetch_acs_data(years[i], geo_level, <<B01003_001E>>, resps[i])],
                                 Identity(Len(years))))

-----------------------------------------------------------------------------
(* The optional sources *)

\* a non-numeric string that int() rejects and the code keeps as it is
Str == <<0, 0, 0>>
IsStr(v) == Len(v) = 3

\* what the two PEP calls answer: "error" (a call fails), "nodata" (a body
\* without a data row), "ok", "popzero" (POP is "0"), "popnull" (POP is null)
PepResponses == {"error", "nodata", "ok", "popzero", "popnull"}

\* lines 529-536: None and "" become None, int(v) where it parses
PepConvert(cell) ==
    IF cell.kind \in {"null", "empty"} THEN None
    ELSE IF cell.kind = "num" /\ cell.tenths = 0
         THEN IF cell.neg THEN <<0 - cell.whole>> ELSE <<cell.whole>>
    ELSE Str

PepCell(n) == [kind |-> "num", neg |-> FALSE, whole |-> n, tenths |-> 0]

\* the data rows of /pep/population and /pep/components, zipped with the headers
PepRaw(resp) ==
    [POP |-> IF resp = "popnull" THEN [kind |-> "null", neg |-> FALSE, whole |-> 0, tenths |-> 0]
             ELSE IF resp = "popzero" THEN PepCell(0) ELSE PepCell(300),
     BIRTHS |-> PepCell(30), DEATHS |-> PepCell(20), NATURALINC |-> PepCell(10),
     NETMIG |-> PepCell(5), DOMESTICMIG |-> PepCell(3), INTERNATIONALMIG |-> PepCell(2)]

\* _fetch_pep_county_components
fetch_pep_county_components(resp) ==
    IF resp \in {"error", "nodata"} THEN Ret(None)
    ELSE LET raw == PepRaw(resp)
         IN  Ret(Some([k \in DOMAIN raw |-> PepConvert(raw[k])]))

\* what the flows call answers
FlowsResponses == {"error", "nodata", "ok"}

\* the data row of /acs/flows, zipped with the headers; "nullcell": MOVEDIN is null
FlowsRaw(resp) ==
    [MOVEDIN |-> IF resp = "nullcell"
                 THEN [kind |-> "null", neg |-> FALSE, whole |-> 0, tenths |-> 0]
                 ELSE PepCell(12),
     MOVEDOUT |-> PepCell(8), MOVEDNET |-> PepCell(4)]

\* lines 463-464: int(val) if val is not None else 0
FlowsConvert(cell) ==
    IF cell.kind = "null" THEN <<0>>
    ELSE IF cell.neg THEN <<0 - cell.whole>> ELSE <<cell.whole>>

\* _fetch_migration_flows
fetch_migration_flows(resp) ==
    IF resp \in {"error", "nodata"} THEN Ret(None)
    ELSE LET raw == FlowsRaw(resp)
         IN  Ret(Some([k \in DOMAIN raw |-> FlowsConvert(raw[k])]))

\* what the Walk Score call answers
WalkResponses == {"error", "status_other", "status_1"}

\* _get_walkability_scores: reading an attribute that Settings does not declare
\* raises AttributeError before the try block; api_key is the configured value
get_walkability_scores(api_key, resp) ==
    IF "WALKSCORE_API_KEY" \notin SettingsFields THEN Exc("AttributeError")
    ELSE IF IsNone(api_key) THEN Ret(None)
    ELSE IF resp = "status_1"
         THEN Ret(Some([walk_score |-> <<60>>, transit_score |-> <<40>>]))
    ELSE Ret(None)

-----------------------------------------------------------------------------
(* _project_tract_population.  Floats are kept as exact fractions [n, d].   *)

Frac(n, d) == LET g == Gcd(n, d) IN IF g = 0 THEN [n |-> 0, d |-> 1] ELSE [n |-> n \div g, d |-> d \div g]
FracAdd(a, b) == Frac(a.n * b.d + b.n * a.d, a.d * b.d)
FracMul(a, b) == Frac(a.n * b.n, a.d * b.d)

\* growth rates that look at the last pair of the county trend only
GrowthRatesLastPair(county_trend, upto) ==
    IF upto < 2 \/ county_trend[upto - 1].population <= 0
    THEN [sum |-> Frac(0, 1), count |-> 0]
    ELSE [sum |-> Frac(county_trend[upto].population, county_trend[upto - 1].population),
          count |-> 1]

\* county_growth_rates over the pairs (i-1, i) for i <= upto: their sum and number
RECURSIVE GrowthRates(_, _)
GrowthRates(county_trend, upto) ==
    IF upto < 2 THEN [sum |-> Frac(0, 1), count |-> 0]
    ELSE LET before == GrowthRates(county_trend, upto - 1)
         IN  IF county_trend[upto - 1].population > 0
             THEN [sum |-> FracAdd(before.sum,
                                   Frac(county_trend[upto].population,
                                        county_trend[upto - 1].population)),
                   count |-> before.count + 1]
             ELSE before

RECURSIVE Compound(_, _, _)
Compound(base, factor, k) ==
    IF k = 0 THEN base ELSE FracMul(Compound(base, factor, k - 1), factor)

project_tract_population(latest_tract_data, county_trend) ==
    IF \/ IsNone(latest_tract_data)
       \/ DOMAIN Val(latest_tract_data) = {}
       \/ IsNone(Get(Val(latest_tract_data), B01003_001E, None))
       \/ Get(Val(latest_tract_data), B01003_001E, None) = <<0>>
       \/ Len(county_trend) < 2
    THEN <<>>
    ELSE LET base_population == Val(latest_tract_data)[B01003_001E]
             rates == GrowthRates(county_trend, Len(county_trend))
         IN  IF rates.count = 0 THEN <<>>
             ELSE LET avg_growth_factor == Frac(rates.sum.n, rates.sum.d * rates.count)
                      base == IF IsInt(base_population) THEN Frac(base_population[1], 1)
                              ELSE Frac(10 * base_population[1] + base_population[2], 10)
                  IN  [k \in 1..ProjectionYears |->
                         LET current_pop == Compound(base, avg_growth_factor, k)
                         IN  PopulationTrendPoint(LATEST_ACS_YEAR + k,
                                 RoundHalfEven(current_pop.n, current_pop.d), TRUE)]

-----------------------------------------------------------------------------
(* What a request ends with *)

\* a PopulationDataResponse returned to the caller
Returned(record) == [status |-> 200, detail |-> <<>>, body |-> Some(record), exc |-> ""]
\* raise HTTPException(status_code, detail)
HTTPException(status_code, detail) ==
    [status |-> status_code, detail |-> detail, body |-> None, exc |-> "HTTPException"]
\* any other exception leaves get_market_data_for_address; the endpoint answers 500
Unexpected(e) ==
    [status |-> 500, detail |-> <<"An unexpected internal error occurred.">>,
     body |-> None, exc |-> e]
NoResponse == [status |-> 0, detail |-> <<>>, body |-> None, exc |-> ""]

IsRecord(resp) == resp.status = 200
NotFound(resp) == resp.status = 404
ServiceUnavailable(resp) == resp.status = 503

\* "not d" for an Optional[dict]
Falsy(d) == IsNone(d) \/ DOMAIN Val(d) = {}
\* "x > 0" raises TypeError for None and for a string
Comparable(v) == IsInt(v) \/ IsFloat(v)
Positive(v) == v[1] > 0 \/ (IsFloat(v) /\ v[1] = 0 /\ v[2] > 0)

\* round(num / den * scale, 2) in hundredths, den > 0
RoundHundredths(num, den, scale) ==
    IF num < 0 THEN 0 - RoundHalfEven((0 - num) * scale * 100, den)
    ELSE RoundHalfEven(num * scale * 100, den)

\* sum(acs_data.get(k, 0) or 0 for k in codes)
RECURSIVE SumVars(_, _)
SumVars(acs_data, codes) ==
    IF codes = {} THEN 0
    ELSE LET k == CHOOSE c \in codes : TRUE
             v == Get(acs_data, k, <<0>>)
         IN  (IF IsInt(v) THEN v[1] ELSE 0) + SumVars(acs_data, codes \ {k})

\* GrowthMetrics(period_years=5)
PeriodYears == 5

\* the float round((((end_pop / start_pop) ** (1 / periods)) - 1) * 100, 2),
\* kept as the expression it is computed from
Cagr(end_pop, start_pop, periods) ==
    [end_pop |-> end_pop, start_pop |-> start_pop, periods |-> periods]

\* growth metrics whose period is the span of the trend
GrowthMetricsOverSpan(trend) ==
    IF Len(trend) < 2
    THEN [period_years |-> 0, cagr |-> None, yoy_growth |-> None, absolute_change |-> None]
    ELSE LET end_pop == trend[Len(trend)].population
             start_pop == trend[1].population
             periods == trend[Len(trend)].year - trend[1].year
         IN  [period_years |-> periods,
              cagr |-> IF start_pop > 0 /\ periods > 0
                       THEN Some(Cagr(end_pop, start_pop, periods)) ELSE None,
              yoy_growth |-> IF start_pop > 0
                             THEN Some(RoundHundredths(end_pop - start_pop, start_pop, 100))
                             ELSE None,
              absolute_change |-> Some(end_pop - start_pop)]

\* lines 577-589: the growth metrics of a trend
calculate_growth_metrics(trend) ==
    IF Len(trend) < 2
    THEN [period_years |-> PeriodYears, cagr |-> None, yoy_growth |-> None,
          absolute_change |-> None]
    ELSE LET end_pop == trend[Len(trend)].population
             start_pop == trend[1].population
             periods == trend[Len(trend)].year - trend[1].year
             prev_pop == trend[Len(trend) - 1].population
         IN  [period_years |-> PeriodYears,
              cagr |-> IF start_pop > 0 /\ periods > 0
                       THEN Some(Cagr(end_pop, start_pop, periods)) ELSE None,
              yoy_growth |-> IF prev_pop > 0
                             THEN Some(RoundHundredths(end_pop - prev_pop, prev_pop, 100))
                             ELSE None,
              absolute_change |-> Some(end_pop - start_pop)]

\* people / aland_sq_miles with aland_sq_miles = aland / 2589988.11, kept as
\* the exact fraction people / aland (people per square meter)
PerLandArea(people, aland) == Frac(people, aland)

\* lines 593-606: PopulationDensity
population_density(acs, trend, aland) ==
    LET has_area == aland > 0
        population == Get(acs, B01003_001E, None)
        latest_actual_pop == IF trend # <<>> THEN trend[Len(trend)].population
                             ELSE IF IsInt(population) THEN population[1] ELSE 0
    IN  [people_per_sq_mile |-> IF has_area THEN PerLandArea(latest_actual_pop, aland)
                                ELSE Frac(0, 1),
         change_over_period |->
            IF trend # <<>> /\ has_area /\ Len(trend) >= 2
            THEN Some(PerLandArea(trend[Len(trend)].population - trend[1].population, aland))
            ELSE None]

\* round((numerator / denominator) * 100, 1) if denominator and denominator > 0
\* else None, in tenths; the division raises TypeError for a None numerator
\* (the variables of a ratio are counts: whole numbers)
PercentOf(numerator, denominator) ==
    IF IsNone(denominator) \/ ~Positive(denominator) THEN [exc |-> "", val |-> None]
    ELSE IF IsNone(numerator) THEN [exc |-> "TypeError", val |-> None]
    ELSE [exc |-> "", val |-> Some(RoundHalfEven(numerator[1] * 1000, denominator[1]))]

\* "acs_data.get(k, 0) or 0"
GetOr0(acs, k) == LET v == Get(acs, k, <<0>>) IN IF IsNone(v) THEN <<0>> ELSE v

\* a total population that leaves the projection out
TotalPopOfLatestYear(acs, trend, projection) ==
    IF trend # <<>> THEN <<trend[Len(trend)].population>>
    ELSE Get(acs, B01003_001E, <<0>>)

\* lines 573-574: the population of the last point of trend + projection
total_pop(acs, trend, projection) ==
    LET all_points == trend \o projection
    IN  IF all_points # <<>> THEN <<all_points[Len(all_points)].population>>
        ELSE Get(acs, B01003_001E, <<0>>)

\* _format_response_data (rates are kept in hundredths, percentages in tenths)
format_response_data(acs_data, trend, projection, county_trend, walkability, migration, natural_increase, address, aland) ==
    IF Falsy(acs_data)
    THEN HTTPException(404, <<"No ACS demographic data found for this", "tract">>)
    ELSE LET acs == Val(acs_data)
             total_population == total_pop(acs, trend, projection)
             geography_name == Get(acs, NAME, <<0>>)
             bachelors_or_higher == SumVars(acs, EduBachelorsVars)
             percent_bachelors == PercentOf(<<bachelors_or_higher>>, Get(acs, B15003_001E, <<0>>))
             percent_renter == PercentOf(Get(acs, B25003_003E, <<0>>), Get(acs, B25003_001E, <<0>>))
             male_total == GetOr0(acs, B01001_002E)[1]
             female_total == GetOr0(acs, B01001_026E)[1]
             total_sex == male_total + female_total
         IN  IF percent_bachelors.exc # "" THEN Unexpected(percent_bachelors.exc)
             ELSE IF percent_renter.exc # "" THEN Unexpected(percent_renter.exc)
             ELSE IF ~IsInt(total_population) \/ IsNone(geography_name)
             THEN Unexpected("ValidationError")
             ELSE Returned(
                    [search_address |-> address,
                     data_year |-> LATEST_ACS_YEAR,
                     geography_name |-> geography_name,
                     geography_level |-> "tract",
                     tract_area_sq_meters |-> aland,
                     total_population |-> total_population[1],
                     median_age |-> Get(acs, B01002_001E, None),
                     growth |-> calculate_growth_metrics(trend),
                     migration |-> migration,
                     natural_increase |-> natural_increase,
                     population_density |-> population_density(acs, trend, aland),
                     age_distribution |->
                        [under_18 |-> SumVars(acs, Under18Vars),
                         age_18_to_34 |-> SumVars(acs, Age18To34Vars),
                         age_35_to_64 |-> SumVars(acs, Age35To64Vars),
                         over_65 |-> SumVars(acs, Over65Vars)],
                     sex_distribution |->
                        [male |-> male_total, female |-> female_total,
                         percent_male |-> IF total_sex > 0
                                          THEN Some(RoundHalfEven(male_total * 1000, total_sex))
                                          ELSE None,
                         percent_female |-> IF total_sex > 0
                                            THEN Some(RoundHalfEven(female_total * 1000, total_sex))
                                            ELSE None],
                     demographics |->
                        [median_household_income |-> Get(acs, B19013_001E, None),
                         percent_bachelors_or_higher |-> percent_bachelors.val,
                         avg_household_size |-> Get(acs, B25010_001E, None)],
                     housing |->
                        [percent_renter_occupied |-> percent_renter.val,
                         median_home_value |-> Get(acs, B25077_001E, None),
                         median_gross_rent |-> Get(acs, B25064_001E, None)],
                     walkability |-> walkability,
                     population_trends |->
                        [trend |-> trend, projection |-> projection,
                         benchmark |-> [county_trend |-> county_trend]]])

\* lines 132-146: the MigrationData of the record, or the exception raised
\* a migration group built from the county components alone, the flow
\* fields defaulting to 0 when the flow result is missing
MigrationStepPepOnly(acs_flows, pep_drivers) ==
    IF Falsy(pep_drivers) THEN [exc |-> "", val |-> None]
    ELSE LET flows == IF Falsy(acs_flows) THEN <<>> ELSE Val(acs_flows)
             pep == Val(pep_drivers)
             pop == Get(pep, "POP", <<0>>)
         IN  IF ~IsInt(pop) THEN [exc |-> "TypeError", val |-> None]
             ELSE IF ~Positive(pop) THEN [exc |-> "", val |-> None]
             ELSE LET net == Get(flows, "MOVEDNET", <<0>>)
                      inflows == Get(flows, "MOVEDIN", <<0>>)
                      outflows == Get(flows, "MOVEDOUT", <<0>>)
                  IN  [exc |-> "",
                       val |-> Some([net_migration |-> net[1],
                                     net_migration_rate |-> RoundHundredths(net[1], pop[1], 100),
                                     inflows |-> inflows[1],
                                     outflows |-> outflows[1],
                                     gross_migration |-> inflows[1] + outflows[1],
                                     domestic_migration |-> Get(pep, "DOMESTICMIG", <<0>>)[1],
                                     international_migration |->
                                        Get(pep, "INTERNATIONALMIG", <<0>>)[1]])]

MigrationStep(acs_flows, pep_drivers) ==
    IF Falsy(acs_flows) \/ Falsy(pep_drivers) THEN [exc |-> "", val |-> None]
    ELSE LET flows == Val(acs_flows)
             pep == Val(pep_drivers)
             pop == Get(pep, "POP", <<0>>)
         IN  IF ~Comparable(pop) THEN [exc |-> "TypeError", val |-> None]
             ELSE IF ~Positive(pop) THEN [exc |-> "", val |-> None]
             ELSE LET net == Get(flows, "MOVEDNET", <<0>>)
                      inflows == Get(flows, "MOVEDIN", <<0>>)
                      outflows == Get(flows, "MOVEDOUT", <<0>>)
                      domestic == Get(pep, "DOMESTICMIG", <<0>>)
                      international == Get(pep, "INTERNATIONALMIG", <<0>>)
                  IN  IF ~IsInt(net) \/ ~IsInt(inflows) \/ ~IsInt(outflows) \/ ~IsInt(pop)
                      THEN [exc |-> "TypeError", val |-> None]
                      ELSE IF ~IsInt(domestic) \/ ~IsInt(international)
                      THEN [exc |-> "ValidationError", val |-> None]
                      ELSE [exc |-> "",
                            val |-> Some([net_migration |-> net[1],
                                          net_migration_rate |-> RoundHundredths(net[1], pop[1], 100),
                                          inflows |-> inflows[1],
                                          outflows |-> outflows[1],
                                          gross_migration |-> inflows[1] + outflows[1],
                                          domestic_migration |-> domestic[1],
                                          international_migration |-> international[1]])]

\* lines 147-152: the NaturalIncreaseData of the record, or the exception raised
NaturalIncreaseStep(pep_drivers) ==
    IF Falsy(pep_drivers) THEN [exc |-> "", val |-> None]
    ELSE LET pep == Val(pep_drivers)
             pop == Get(pep, "POP", <<0>>)
         IN  IF ~Comparable(pop) THEN [exc |-> "TypeError", val |-> None]
             ELSE IF ~Positive(pop) THEN [exc |-> "", val |-> None]
             ELSE IF {"BIRTHS", "DEATHS", "NATURALINC"} \ DOMAIN pep # {}
                  THEN [exc |-> "KeyError", val |-> None]
             ELSE IF ~IsInt(pep["NATURALINC"]) \/ ~IsInt(pop)
                  THEN [exc |-> "TypeError", val |-> None]
             ELSE IF ~IsInt(pep["BIRTHS"]) \/ ~IsInt(pep["DEATHS"])
                  THEN [exc |-> "ValidationError", val |-> None]
             ELSE [exc |-> "",
                   val |-> Some([births |-> pep["BIRTHS"][1],
                                 deaths |-> pep["DEATHS"][1],
                                 natural_change |-> pep["NATURALINC"][1],
                                 natural_increase_rate |->
                                    RoundHundredths(pep["NATURALINC"][1], pop[1], 1000)])]

\* the mandatory tasks named in line 107, in the order of the tasks dict
RECURSIVE FirstFailedMandatory(_, _)
FirstFailedMandatory(task_results, i) ==
    IF i > Len(TaskNames) THEN ""
    ELSE IF IsException(task_results[TaskNames[i]]) /\ TaskNames[i] \in MandatoryTasks
         THEN TaskNames[i]
    ELSE FirstFailedMandatory(task_results, i + 1)

\* lines 111-120: the historical points plus the point of the latest year
rebuild_tract_trend(historical_trend, latest_population) ==
    IF IsNone(latest_population) THEN historical_trend
    ELSE SortByYear(Append(historical_trend,
            PopulationTrendPoint(LATEST_ACS_YEAR, latest_population[1], FALSE)))

\* get_market_data_for_address, lines 98-166: from the gathered task results to
\* the record that is about to be stored, or to the exception raised
Coordinate(address, geo_info, task_results) ==
    LET main_acs_data == task_results["latest_year_tract_data"]
        failed == FirstFailedMandatory(task_results, 1)
    IN  IF IsException(main_acs_data) \/ Falsy(main_acs_data.val)
        THEN HTTPException(503, <<"Failed to fetch critical ACS data",
                                  IF IsException(main_acs_data) THEN main_acs_data.err ELSE "None">>)
        ELSE IF failed # ""
        THEN HTTPException(503, <<"Failed to fetch required data for", failed>>)
        ELSE
        LET \* line 109: the result of a failed optional task becomes None
            value(name) == IF IsException(task_results[name]) THEN None
                           ELSE task_results[name].val
            historical_trend == value("historical_tract_trend")
            latest_population == Get(Val(main_acs_data.val), B01003_001E, None)
            county_trend == value("county_trend")
            projections == project_tract_population(main_acs_data.val, county_trend)
            migration == MigrationStep(value("migration_flows"), value("county_drivers"))
            natural == NaturalIncreaseStep(value("county_drivers"))
        IN  IF ~IsNone(latest_population) /\ ~IsInt(latest_population)
            THEN Unexpected("ValidationError")
            ELSE IF migration.exc # "" THEN Unexpected(migration.exc)
            ELSE IF natural.exc # "" THEN Unexpected(natural.exc)
            ELSE LET tract_trend == rebuild_tract_trend(historical_trend, latest_population)
                 IN  format_response_data(main_acs_data.val, tract_trend, projections,
                                          county_trend, value("walkability"), migration.val,
                                          natural.val, address, geo_info.aland)

-----------------------------------------------------------------------------
(* _geocode_address *)

NominatimResponses == {"error", "nomatch", "ok"}
GeographiesResponses == {"error", "notract", "ok"}
GeoinfoResponses == {"error", "nodata", "ok"}

\* what a try block raised: nothing, an HTTPException of the code's own, or
\* an error of the HTTP client
NoRaise == [cls |-> "", status |-> 0, detail |-> <<>>]
Raise(cls, status, detail) == [cls |-> cls, status |-> status, detail |-> detail]

\* "except Exception" catches every exception class, HTTPException included
ExceptException(cls) == TRUE

\* try: <block>  except Exception: raise HTTPException(503, detail)
TryOr503(raised, detail) ==
    IF raised.cls = "" THEN NoResponse
    ELSE IF ExceptException(raised.cls) THEN HTTPException(503, detail)
    ELSE IF raised.cls = "HTTPException" THEN HTTPException(raised.status, raised.detail)
    ELSE Unexpected(raised.cls)

\* land area of the sample tract in square meters
TractLandArea == 1000

geocode_address(nominatim, geographies, geoinfo) ==
    LET step1 == IF nominatim = "error" THEN Raise("HTTPStatusError", 0, <<>>)
                 ELSE IF nominatim = "nomatch"
                      THEN Raise("HTTPException", 404, <<"Address not found by geocoder.">>)
                 ELSE NoRaise
        step2 == IF geographies = "error" THEN Raise("HTTPStatusError", 0, <<>>)
                 ELSE IF geographies = "notract"
                      THEN Raise("HTTPException", 404,
                                 <<"Could not determine geographic boundaries (tract/county).">>)
                 ELSE NoRaise
        \* ALAND of the geocoder's tract, replaced by AREALAND of the same tract
        \* when GEOINFO answers
        aland == IF geoinfo = "ok" THEN TractLandArea ELSE TractLandArea
    IN  IF step1.cls # ""
        THEN [raised |-> TryOr503(step1, <<"Geocoding service (Nominatim) failed.">>),
              val |-> None]
        ELSE IF step2.cls # ""
        THEN [raised |-> TryOr503(step2, <<"Geocoding service failed at FIPS lookup.">>),
              val |-> None]
        ELSE [raised |-> NoResponse,
              val |-> Some([fips |-> "tract-1", aland |-> aland])]

-----------------------------------------------------------------------------
(* The cache: the population_cache table and the payload stored in it *)

Lower(c) == IF c = "M" THEN "m" ELSE c

\* re.sub(r'\s+', ' ', address): every run of spaces becomes one space
RECURSIVE CollapseSpaces(_)
CollapseSpaces(a) ==
    IF Len(a) = 0 THEN <<>>
    ELSE IF Len(a) >= 2 /\ a[1] = " " /\ a[2] = " " THEN CollapseSpaces(Tail(a))
    ELSE <<a[1]>> \o CollapseSpaces(Tail(a))

\* str.strip() after the substitution: at most one space at either end is left
Strip(a) ==
    LET front == IF Len(a) > 0 /\ a[1] = " " THEN Tail(a) ELSE a
    IN  IF Len(front) > 0 /\ front[Len(front)] = " "
        THEN SubSeq(front, 1, Len(front) - 1) ELSE front

\* a key that keeps the letter case of the address
CacheKeyCaseSensitive(address) ==
    <<Strip(CollapseSpaces(address)), "|tract|5_year_projected_v3">>

\* lines 61-62
CacheKey(address) ==
    LET stripped == Strip(CollapseSpaces(address))
        normalized_address == [i \in 1..Len(stripped) |-> Lower(stripped[i])]
    IN  <<normalized_address, "|tract|5_year_projected_v3">>

\* json.loads(response_data.model_dump_json(by_alias=True)): AgeDistribution
\* is written under its aliases
model_dump_json(record) ==
    [record EXCEPT !.age_distribution =
        ("under_18" :> record.age_distribution.under_18)
        @@ ("_18_to_34" :> record.age_distribution.age_18_to_34)
        @@ ("_35_to_64" :> record.age_distribution.age_35_to_64)
        @@ ("over_65" :> record.age_distribution.over_65)]

RequiredFields == {"search_address", "data_year", "geography_name", "geography_level",
                   "tract_area_sq_meters", "total_population", "median_age", "growth",
                   "population_density", "age_distribution", "demographics", "housing",
                   "population_trends"}

\* a schema that reads the field under its name only
AgeFieldByNameOnly(obj, alias, name) ==
    IF name \in DOMAIN obj THEN Some(obj[name]) ELSE None

\* AgeDistribution has populate_by_name: a field is read under its alias or its name
AgeField(obj, alias, name) ==
    IF alias \in DOMAIN obj THEN Some(obj[alias])
    ELSE IF name \in DOMAIN obj THEN Some(obj[name])
    ELSE None

\* PopulationDataResponse.model_validate(payload): None stands for ValidationError
model_validate(payload) ==
    IF RequiredFields \ DOMAIN payload # {} THEN None
    ELSE LET age == payload.age_distribution
             a1 == AgeField(age, "_18_to_34", "age_18_to_34")
             a2 == AgeField(age, "_35_to_64", "age_35_to_64")
         IN  IF {"under_18", "over_65"} \ DOMAIN age # {} \/ IsNone(a1) \/ IsNone(a2)
             THEN None
             ELSE Some([search_address |-> payload.search_address,
                        data_year |-> payload.data_year,
                        geography_name |-> payload.geography_name,
                        geography_level |-> payload.geography_level,
                        tract_area_sq_meters |-> payload.tract_area_sq_meters,
                        total_population |-> payload.total_population,
                        median_age |-> payload.median_age,
                        growth |-> payload.growth,
                        migration |-> Get(payload, "migration", None),
                        natural_increase |-> Get(payload, "natural_increase", None),
                        population_density |-> payload.population_density,
                        age_distribution |->
                            [under_18 |-> age.under_18, age_18_to_34 |-> Val(a1),
                             age_35_to_64 |-> Val(a2), over_65 |-> age.over_65],
                        sex_distribution |-> Get(payload, "sex_distribution", None),
                        demographics |-> payload.demographics,
                        housing |-> payload.housing,
                        walkability |-> Get(payload, "walkability", None),
                        population_trends |-> payload.population_trends])

\* select(PopulationCache).where(address_key == cache_key) ... .first()
CacheFirst(table, cache_key) ==
    IF \E row \in table : row.address_key = cache_key
    THEN Some(CHOOSE row \in table : row.address_key = cache_key)
    ELSE None

\* the population_cache table holds one row per address_key: the INSERT of a
\* second row for a key violates the constraint
KeyTaken(table, cache_key) == \E row \in table : row.address_key = cache_key

\* a commit that writes nothing
CacheInsertLost(table, cache_key, payload) == [raised |-> "", table |-> table]

\* db.add(PopulationCache(...)); db.commit(): always the INSERT of a new row
CacheInsert(table, cache_key, payload) ==
    IF KeyTaken(table, cache_key)
    THEN [raised |-> "IntegrityError", table |-> table]
    ELSE [raised |-> "",
          table |-> table \cup {[address_key |-> cache_key, response_data |-> payload]}]

-----------------------------------------------------------------------------
(* Specification Spec: one request through get_market_data_for_address,     *)
(* one action per stretch of code between two awaits.                       *)

\* a bound on the answers tried for the years of one trend: all years answer
\* alike but for at most MaxOddYears of them
MaxOddYears == 1

ResponseVectors(n) ==
    {[i \in 1..n |-> IF i \in odd THEN b ELSE a] :
        a \in AcsResponses, b \in AcsResponses,
        odd \in {o \in SUBSET (1..n) : Cardinality(o) <= MaxOddYears}}

\* the calls that came back without a data row (HTTP error, timeout, 204, empty body)
NoData(resps) == {i \in DOMAIN resps : resps[i].status # "ok"}
\* the dataset is incomplete: the call of some chunk came back without data
SomeFailed(resps) == IF NoData(resps) # {} THEN "failed" ELSE "ok"
\* the source is unusable: every call came back without data
AllFailed(resps) == IF NoData(resps) = DOMAIN resps THEN "failed" ELSE "ok"

RequestAddress == <<"1", " ", "M">>

\* no pure function is called on its own
NoCall == [op |-> "", args |-> <<>>, out |-> <<>>, done |-> FALSE]

\* the result makes the coordinator give up (lines 100 and 107)
FailsRequest(name, result) ==
    /\ name \in MandatoryTasks
    /\ \/ IsException(result)
       \/ name = "latest_year_tract_data" /\ Falsy(result.val)

\* asyncio.gather without return_exceptions: the first exception ends the wait
GatherFirstException(task_results) ==
    \/ \A t \in Tasks : task_results[t].tag # "pending"
    \/ \E t \in Tasks : IsException(task_results[t])

\* asyncio.gather(*tasks, return_exceptions=True) returns once every task has
\* a result or an exception
GatherDone(task_results) == \A t \in Tasks : task_results[t].tag # "pending"

Init ==
    /\ pc = "lookup"
    /\ geo = None
    /\ results = [t \in Tasks |-> Pending]
    /\ upstream = [t \in Tasks \cup {"geocode"} |-> "pending"]
    /\ early = FALSE
    /\ response_data = None
    /\ response = NoResponse
    /\ cache = {}
    /\ req = <<>>
    /\ sem = <<>>
    /\ calc = NoCall

\* lines 65-76
Lookup ==
    /\ pc = "lookup"
    /\ LET cached_data == CacheFirst(cache, CacheKey(RequestAddress))
           valid == IF IsNone(cached_data) THEN None
                    ELSE model_validate(Val(cached_data).response_data)
       IN  IF ~IsNone(valid)
           THEN /\ response' = Returned(Val(valid))
                /\ pc' = "done"
           ELSE /\ pc' = "geocode"
                /\ UNCHANGED response
    /\ UNCHANGED <<geo, results, upstream, early, response_data, cache, req, sem, calc>>

\* what the geocoding collaborators did: "error" (one of them is unreachable
\* or answers an error status), "nomatch" (no match for the address, or no
\* tract/county for the coordinates), "ok"
Resolution(nominatim, geographies) ==
    IF nominatim = "error" THEN "error"
    ELSE IF nominatim = "nomatch" THEN "nomatch"
    ELSE IF geographies = "error" THEN "error"
    ELSE IF geographies = "notract" THEN "nomatch"
    ELSE "ok"

\* lines 78-79
Geocode ==
    /\ pc = "geocode"
    /\ \E n \in NominatimResponses, g \in GeographiesResponses, i \in GeoinfoResponses :
          LET geo_info == geocode_address(n, g, i)
          IN /\ IF IsNone(geo_info.val)
              THEN /\ response' = geo_info.raised
                   /\ pc' = "done"
                   /\ UNCHANGED geo
              ELSE /\ geo' = geo_info.val
                   /\ pc' = "gather"
                   /\ UNCHANGED response
             /\ upstream' = [upstream EXCEPT !["geocode"] = Resolution(n, g)]
    /\ UNCHANGED <<results, early, response_data, cache, req, sem, calc>>

\* a fan-out task finishes with result, having seen the upstream answers resps
Settle(name, result, failures) ==
    /\ pc = "gather"
    /\ results[name].tag = "pending"
    /\ results' = [results EXCEPT ![name] = result]
    /\ upstream' = [upstream EXCEPT ![name] = failures]
    /\ early' = (early \/ (FailsRequest(name, result)
                            /\ \E t \in Tasks \ {name} : results[t].tag = "pending"))
    /\ UNCHANGED <<pc, geo, response_data, response, cache, req, sem, calc>>

SettleLatest ==
    \E resps \in [1..Len(chunk_variables(ACS_VARS, DefaultChunkSize)) -> AcsResponses] :
        Settle("latest_year_tract_data",
               fetch_large_acs_dataset(LATEST_ACS_YEAR, "tract", ACS_VARS, resps),
               SomeFailed(resps))

SettleHistorical ==
    LET years == SubSeq(historical_years, 1, Len(historical_years) - 1)
    IN  \E resps \in ResponseVectors(Len(years)) :
            Settle("historical_tract_trend",
                   fetch_population_trend_acs(years, "tract", resps), AllFailed(resps))

SettleCounty ==
    \E resps \in ResponseVectors(Len(historical_years)) :
        Settle("county_trend",
               fetch_population_trend_acs(historical_years, "county", resps),
               AllFailed(resps))

SettleDrivers ==
    \E resp \in PepResponses :
        Settle("county_drivers", fetch_pep_county_components(resp),
               IF resp \in {"error", "nodata"} THEN "failed" ELSE "ok")

SettleFlows ==
    \E resp \in FlowsResponses :
        Settle("migration_flows", fetch_migration_flows(resp),
               IF resp \in {"error", "nodata"} THEN "failed" ELSE "ok")

SettleWalkability ==
    \E api_key \in {None, <<"key">>}, resp \in WalkResponses :
        LET result == get_walkability_scores(api_key, resp)
        IN  Settle("walkability", result,
                   IF IsException(result) \/ IsNone(result.val) THEN "failed" ELSE "ok")

\* lines 95-174: gather returns, the record is built and added to the session
Process ==
    /\ pc = "gather"
    /\ GatherDone(results)
    /\ LET outcome == Coordinate(RequestAddress, Val(geo), results)
       IN  IF IsRecord(outcome)
           THEN /\ response_data' = outcome.body
                /\ pc' = "commit"
                /\ UNCHANGED response
           ELSE /\ response' = outcome
                /\ pc' = "done"
                /\ UNCHANGED response_data
    /\ UNCHANGED <<geo, results, upstream, early, cache, req, sem, calc>>

\* lines 175-178: the commit, then the return
Commit ==
    /\ pc = "commit"
    /\ LET ins == CacheInsert(cache, CacheKey(RequestAddress),
                              model_dump_json(Val(response_data)))
       IN  /\ cache' = ins.table
           /\ response' = IF ins.raised # "" THEN Unexpected(ins.raised)
                          ELSE Returned(Val(response_data))
    /\ pc' = "done"
    /\ UNCHANGED <<geo, results, upstream, early, response_data, req, sem, calc>>

Next ==
    \/ Lookup
    \/ Geocode
    \/ SettleLatest
    \/ SettleHistorical
    \/ SettleCounty
    \/ SettleDrivers
    \/ SettleFlows
    \/ SettleWalkability
    \/ Process
    \/ Commit

Spec == Init /\ [][Next]_vars

-----------------------------------------------------------------------------
(* Claims checked under Spec *)

\* a mandatory task failed: it raised, the latest-year dataset came back
\* empty, or every call of a trend came back without data
TaskFailed(name) ==
    \/ IsException(results[name])
    \/ name = "latest_year_tract_data" /\ results[name].tag = "ret" /\ Falsy(results[name].val)
    \/ name \in {"historical_tract_trend", "county_trend"} /\ upstream[name] = "failed"

\* the optional task gave no value: it raised or returned None
OptionalFailed(name) ==
    IsException(results[name]) \/ (results[name].tag = "ret" /\ IsNone(results[name].val))

\* the fan-out ran and the request is over
PipelineDone == pc = "done" /\ upstream["geocode"] = "ok"

\* the failure message names the task
NamesTask(detail, name) ==
    \/ detail = <<"Failed to fetch required data for", name>>
    \/ name = "latest_year_tract_data" /\ detail[1] = "Failed to fetch critical ACS data"

\* C1: when a mandatory task (latest-year dataset, tract trend, county trend)
\* failed, the request ends with 503 naming a failed task and without a
\* record, whatever the optional tasks did.
C1_MandatoryFailureIs503 ==
    (PipelineDone /\ \E t \in MandatoryTasks : TaskFailed(t))
        => /\ ServiceUnavailable(response)
           /\ IsNone(response.body)
           /\ \E t \in MandatoryTasks : TaskFailed(t) /\ NamesTask(response.detail, t)

\* C2: when every mandatory task succeeded, the request returns a record
\* whatever optional tasks failed, and the field fed by a failed optional task
\* is null in it.
C2_OptionalFailureStillReturns ==
    (PipelineDone /\ \A t \in MandatoryTasks : ~TaskFailed(t))
        => /\ IsRecord(response)
           /\ OptionalFailed("county_drivers")
                => /\ IsNone(Val(response.body).migration)
                   /\ IsNone(Val(response.body).natural_increase)
           /\ OptionalFailed("migration_flows") => IsNone(Val(response.body).migration)
           /\ OptionalFailed("walkability") => IsNone(Val(response.body).walkability)

\* C3: the criticality decision, the derived metrics and the cache store come
\* only after all six fan-out tasks have settled.
C3_DecisionAfterAllSettled ==
    (pc = "commit" \/ PipelineDone \/ ~IsNone(response_data) \/ cache # {})
        => \A t \in Tasks : results[t].tag \in {"ret", "exc"}

\* C3 witness: a mandatory task failed while others were in flight, and the
\* request was refused after all six had settled
C3_Witness ==
    /\ PipelineDone
    /\ early
    /\ ServiceUnavailable(response)
    /\ \A t \in Tasks : results[t].tag \in {"ret", "exc"}

\* C4: the merged VariableMap exists only if every chunk fetch succeeded; with
\* a failed chunk nothing of it reaches the assembly.
C4_MergedOnlyIfEveryChunkSucceeded ==
    /\ (results["latest_year_tract_data"].tag = "ret"
            /\ ~IsNone(results["latest_year_tract_data"].val))
        => upstream["latest_year_tract_data"] = "ok"
    /\ ~IsNone(response_data) => upstream["latest_year_tract_data"] = "ok"

\* C10: an address that does not resolve (no geocoder match, no tract/county)
\* ends with 404, and 503 from geocoding only when a collaborator is
\* unreachable or errors.
C10_UnresolvedAddressIs404 ==
    /\ (pc = "done" /\ upstream["geocode"] = "nomatch") => NotFound(response)
    /\ (pc = "done" /\ upstream["geocode"] \in {"nomatch", "error"}
            /\ ServiceUnavailable(response)) => upstream["geocode"] = "error"

-----------------------------------------------------------------------------
(* Specification SpecCache: MaxRequests concurrent requests through the     *)
(* cache gateway.  The fan-out of a request is one step here; its tasks get *)
(* answers from a small set.                                                *)

MaxRequests == 2
Requests == 1..MaxRequests

\* two spellings of one address and another address
Addresses == {<<"1", " ", "M">>, <<" ", "1", " ", " ", "m", " ">>, <<"2", " ", "M">>}

\* a payload written under an earlier schema: it lacks age_distribution
StalePayload ==
    [search_address |-> <<"1", " ", "M">>, data_year |-> LATEST_ACS_YEAR,
     geography_name |-> <<GeographyName>>, geography_level |-> "tract",
     tract_area_sq_meters |-> TractLandArea, total_population |-> 1]

Uniform(n, resp) == [i \in 1..n |-> resp]

\* the task results when every ACS call answers acs and the PEP calls answer pep
SampleResults(acs, pep) ==
    [t \in Tasks |->
        CASE t = "latest_year_tract_data" ->
                fetch_large_acs_dataset(LATEST_ACS_YEAR, "tract", ACS_VARS,
                    Uniform(Len(chunk_variables(ACS_VARS, DefaultChunkSize)), acs))
          [] t = "historical_tract_trend" ->
                fetch_population_trend_acs(
                    SubSeq(historical_years, 1, Len(historical_years) - 1), "tract",
                    Uniform(Len(historical_years) - 1, acs))
          [] t = "county_trend" ->
                fetch_population_trend_acs(historical_years, "county",
                    Uniform(Len(historical_years), acs))
          [] t = "county_drivers" -> fetch_pep_county_components(pep)
          [] t = "migration_flows" -> fetch_migration_flows("ok")
          [] OTHER -> get_walkability_scores(None, "error")]

\* the optional tasks whose result the coordinator records as absent: an
\* exception (lines 103-109) or None
FailedOptional(task_results) ==
    {t \in OptionalTasks : task_results[t].tag = "exc" \/ IsNone(task_results[t].val)}

IdleRequest ==
    [pc |-> "idle", address |-> <<>>, found |-> "", response_data |-> None,
     response |-> NoResponse, geocodes |-> 0, fetches |-> 0, commits |-> 0,
     commit_seq |-> 0, failed_optional |-> {}]

\* a row left by a deployment whose key ended in an earlier schema tag
OldTagRow(a) ==
    [address_key |-> <<CacheKey(a)[1], "|tract|5_year_projected_v2">>,
     response_data |-> StalePayload]

InitCache ==
    /\ pc = "idle"
    /\ geo = None
    /\ results = [t \in Tasks |-> Pending]
    /\ upstream = [t \in Tasks \cup {"geocode"} |-> "pending"]
    /\ early = FALSE
    /\ response_data = None
    /\ response = NoResponse
    /\ sem = <<>>
    /\ calc = NoCall
    /\ req = [r \in Requests |-> IdleRequest]
    /\ cache \in {{}} \cup {{[address_key |-> CacheKey(a), response_data |-> StalePayload]} :
                                a \in Addresses}
                     \cup {{OldTagRow(a)} : a \in Addresses}

CacheUnchanged ==
    UNCHANGED <<pc, geo, results, upstream, early, response_data, response, sem, calc>>

\* a request arrives
Arrive(r) ==
    /\ req[r].pc = "idle"
    /\ \E a \in Addresses : req' = [req EXCEPT ![r].pc = "lookup", ![r].address = a]
    /\ UNCHANGED cache
    /\ CacheUnchanged

\* lines 65-76
LookupCache(r) ==
    /\ req[r].pc = "lookup"
    /\ LET cached_data == CacheFirst(cache, CacheKey(req[r].address))
           valid == IF IsNone(cached_data) THEN None
                    ELSE model_validate(Val(cached_data).response_data)
       IN  req' = [req EXCEPT
                ![r].found = IF IsNone(cached_data) THEN "nothing"
                             ELSE IF IsNone(valid) THEN "invalid" ELSE "valid",
                ![r].response = IF IsNone(valid) THEN NoResponse ELSE Returned(Val(valid)),
                ![r].pc = IF IsNone(valid) THEN "geocode" ELSE "done"]
    /\ UNCHANGED cache
    /\ CacheUnchanged

\* lines 78-79
GeocodeCache(r) ==
    /\ req[r].pc = "geocode"
    /\ \E n \in {"ok", "nomatch"} :
          LET geo_info == geocode_address(n, "ok", "ok")
          IN  req' = [req EXCEPT
                    ![r].geocodes = @ + 1,
                    ![r].response = geo_info.raised,
                    ![r].pc = IF IsNone(geo_info.val) THEN "done" ELSE "gather"]
    /\ UNCHANGED cache
    /\ CacheUnchanged

\* lines 82-174: the fan-out, the record, db.add
\* a gather that stores whatever the coordinator ended with, before the
\* outcome is looked at
GatherCacheWriteThrough(r) ==
    /\ req[r].pc = "gather"
    /\ \E acs \in {[status |-> "ok", pop |-> "int"], [status |-> "error", pop |-> "int"]},
          pep \in {"ok", "error"} :
          LET geo_info == geocode_address("ok", "ok", "ok")
              outcome == Coordinate(req[r].address, Val(geo_info.val), SampleResults(acs, pep))
          IN  /\ req' = [req EXCEPT
                    ![r].fetches = @ + 1,
                    ![r].failed_optional = FailedOptional(SampleResults(acs, pep)),
                    ![r].response_data = outcome.body,
                    ![r].response = IF IsRecord(outcome) THEN NoResponse ELSE outcome,
                    ![r].pc = IF IsRecord(outcome) THEN "commit" ELSE "done"]
              /\ cache' = IF IsRecord(outcome) THEN cache
                          ELSE cache \cup {[address_key |-> CacheKey(req[r].address),
                                            response_data |-> outcome.detail]}
    /\ CacheUnchanged

GatherCache(r) ==
    /\ req[r].pc = "gather"
    /\ \E acs \in {[status |-> "ok", pop |-> "int"], [status |-> "error", pop |-> "int"]},
          pep \in {"ok", "error"} :
          LET geo_info == geocode_address("ok", "ok", "ok")
              outcome == Coordinate(req[r].address, Val(geo_info.val), SampleResults(acs, pep))
          IN  req' = [req EXCEPT
                    ![r].fetches = @ + 1,
                    ![r].failed_optional = FailedOptional(SampleResults(acs, pep)),
                    ![r].response_data = outcome.body,
                    ![r].response = IF IsRecord(outcome) THEN NoResponse ELSE outcome,
                    ![r].pc = IF IsRecord(outcome) THEN "commit" ELSE "done"]
    /\ UNCHANGED cache
    /\ CacheUnchanged

\* lines 175-178
CommitCache(r) ==
    /\ req[r].pc = "commit"
    /\ LET ins == CacheInsert(cache, CacheKey(req[r].address),
                              model_dump_json(Val(req[r].response_data)))
       IN  /\ cache' = ins.table
           /\ req' = [req EXCEPT
                    ![r].commits = @ + 1,
                    ![r].commit_seq = 1 + Cardinality({q \in Requests : req[q].commit_seq > 0}),
                    ![r].response = IF ins.raised # "" THEN Unexpected(ins.raised)
                                    ELSE Returned(Val(req[r].response_data)),
                    ![r].pc = "done"]
    /\ CacheUnchanged

NextCache ==
    \/ \E r \in Requests : Arrive(r)
    \/ \E r \in Requests : LookupCache(r)
    \/ \E r \in Requests : GeocodeCache(r)
    \/ \E r \in Requests : GatherCache(r)
    \/ \E r \in Requests : CommitCache(r)

SpecCache == InitCache /\ [][NextCache]_vars

-----------------------------------------------------------------------------
(* Claims checked under SpecCache *)

Finished(r) == req[r].pc = "done"
RowsFor(address) == {row \in cache : row.address_key = CacheKey(address)}
\* the request ran the pipeline to a record and called db.add / db.commit
Wrote(r) == req[r].commits = 1
LaterWriter(r, q) ==
    /\ Wrote(q)
    /\ CacheKey(req[q].address) = CacheKey(req[r].address)
    /\ req[q].commit_seq > req[r].commit_seq

\* C5: a request whose lookup found a valid entry returns the stored record
\* with no geocode, no source fetch and no cache write; a request that
\* missed and returned a record has stored exactly that record, and no
\* record is returned before the store.
C5_LookupThenHitOrMissComputeStore ==
    \A r \in Requests :
        /\ req[r].pc \in {"geocode", "gather", "commit"} => ~IsRecord(req[r].response)
        /\ (Finished(r) /\ req[r].found = "valid") =>
              /\ req[r].geocodes = 0 /\ req[r].fetches = 0 /\ req[r].commits = 0
              /\ IsRecord(req[r].response)
              /\ \E row \in RowsFor(req[r].address) :
                    model_validate(row.response_data) = req[r].response.body
        /\ (Finished(r) /\ req[r].found # "valid" /\ IsRecord(req[r].response)) =>
              /\ req[r].commits = 1
              /\ req[r].response.body = req[r].response_data
              /\ \E row \in RowsFor(req[r].address) :
                    row.response_data = model_dump_json(Val(req[r].response.body))

\* one request missed, computed, stored and returned; another one hit
C5_Witness ==
    \E r, q \in Requests :
        /\ Finished(r) /\ req[r].found = "nothing" /\ IsRecord(req[r].response)
        /\ req[r].commits = 1 /\ req[r].fetches = 1
        /\ Finished(q) /\ req[q].found = "valid" /\ IsRecord(req[q].response)

\* C6: a request that found an entry that does not validate, and whose
\* recomputation produced a record, stores and returns that record; no error
\* is surfaced.
C6_StaleEntryIsAMiss ==
    \A r \in Requests :
        (Finished(r) /\ req[r].found = "invalid" /\ ~IsNone(req[r].response_data)) =>
            /\ req[r].response = Returned(Val(req[r].response_data))
            /\ \E row \in RowsFor(req[r].address) :
                  row.response_data = model_dump_json(Val(req[r].response_data))

\* C7: every writer completes without error, the table holds at most one row
\* per key, and that row is the record of the latest writer for the key.
C7_StoreIsLastWriteWins ==
    /\ \A r \in Requests : (Finished(r) /\ Wrote(r)) => req[r].response.exc = ""
    /\ \A row1, row2 \in cache : row1.address_key = row2.address_key => row1 = row2
    /\ \A r \in Requests :
          (Finished(r) /\ Wrote(r) /\ ~\E q \in Requests : LaterWriter(r, q)) =>
              \A row \in RowsFor(req[r].address) :
                  row.response_data = model_dump_json(Val(req[r].response_data))

\* C8: after a request has stored its record, the lookup of its key finds a
\* payload that validates to a record equal to the stored one.
C8_CacheRoundTrip ==
    \A r \in Requests :
        (Finished(r) /\ Wrote(r) /\ IsRecord(req[r].response)) =>
            LET cached_data == CacheFirst(cache, CacheKey(req[r].address))
            IN  /\ ~IsNone(cached_data)
                /\ model_validate(Val(cached_data).response_data) = req[r].response_data

\* a record with its age buckets was stored and the row is in the table
C8_Witness ==
    \E r \in Requests :
        /\ Finished(r) /\ Wrote(r) /\ IsRecord(req[r].response)
        /\ Val(req[r].response_data).age_distribution.age_18_to_34 > 0
        /\ "_18_to_34" \in DOMAIN
              Val(CacheFirst(cache, CacheKey(req[r].address))).response_data.age_distribution

-----------------------------------------------------------------------------
(* Specification SpecLimiter: the Census API semaphore.  Every request gets *)
(* its own CensusService (Depends(CensusService)), so its own semaphore;    *)
(* the fan-out of a request starts all its fetch coroutines at once.        *)

MaxServices == 2
Services == 1..MaxServices

\* the coroutines that enter "async with self.census_api_semaphore"
FetchKinds == {"acs", "flows", "pep"}

\* the _fetch_acs_data calls of one fan-out: the chunks of the latest-year
\* dataset, the tract years before the latest, the county years
AcsCalls ==
    Len(chunk_variables(ACS_VARS, DefaultChunkSize))
    + (Len(historical_years) - 1) + Len(historical_years)

\* HTTP requests a coroutine of the kind has in flight while it holds a permit
RequestsPerPermit(kind) == IF kind = "pep" THEN 2 ELSE 1

NoService == [value |-> 0, waiting |-> [k \in FetchKinds |-> 0],
              holding |-> [k \in FetchKinds |-> 0], started |-> FALSE]

InitLimiter ==
    /\ pc = "idle"
    /\ geo = None
    /\ results = [t \in Tasks |-> Pending]
    /\ upstream = [t \in Tasks \cup {"geocode"} |-> "pending"]
    /\ early = FALSE
    /\ response_data = None
    /\ response = NoResponse
    /\ cache = {}
    /\ req = <<>>
    /\ sem = [s \in Services |-> NoService]
    /\ calc = NoCall

LimiterUnchanged ==
    UNCHANGED <<pc, geo, results, upstream, early, response_data, response, cache, req, calc>>

\* CensusService() for a request, then the gather of line 95 starts the tasks
StartFetches(s) ==
    /\ ~sem[s].started
    /\ sem' = [sem EXCEPT ![s] =
            [value |-> SemaphoreCapacity,
             waiting |-> [k \in FetchKinds |-> IF k = "acs" THEN AcsCalls ELSE 1],
             holding |-> [k \in FetchKinds |-> 0],
             started |-> TRUE]]
    /\ LimiterUnchanged

\* "async with self.census_api_semaphore": enter, the request(s) go out
Acquire(s, kind) ==
    /\ sem[s].started
    /\ sem[s].waiting[kind] > 0
    /\ sem[s].value > 0
    /\ sem' = [sem EXCEPT ![s].value = @ - 1,
                          ![s].waiting[kind] = @ - 1,
                          ![s].holding[kind] = @ + 1]
    /\ LimiterUnchanged

\* the response(s) arrived; leaving the block gives the permit back
Release(s, kind) ==
    /\ sem[s].holding[kind] > 0
    /\ sem' = [sem EXCEPT ![s].value = @ + 1,
                          ![s].holding[kind] = @ - 1]
    /\ LimiterUnchanged

NextLimiter ==
    \/ \E s \in Services : StartFetches(s)
    \/ \E s \in Services, kind \in FetchKinds : Acquire(s, kind)
    \/ \E s \in Services, kind \in FetchKinds : Release(s, kind)

SpecLimiter == InitLimiter /\ [][NextLimiter]_vars

InFlightOf(s) ==
    sem[s].holding["acs"] * RequestsPerPermit("acs")
    + sem[s].holding["flows"] * RequestsPerPermit("flows")
    + sem[s].holding["pep"] * RequestsPerPermit("pep")

RECURSIVE InFlightUpTo(_)
InFlightUpTo(n) == IF n = 0 THEN 0 ELSE InFlightOf(n) + InFlightUpTo(n - 1)

\* HTTP requests to the Census data API in flight, over all requests
InFlight == InFlightUpTo(MaxServices)

\* C9: at every moment at most SemaphoreCapacity HTTP requests to the Census
\* data API are in flight, over all fetch tasks and all concurrent requests.
C9_InFlightAtMostCapacity == InFlight <= SemaphoreCapacity

\* C11: no exception of the migration / natural-increase derivation (a
\* TypeError of a comparison or division, a KeyError of a lookup) ends a
\* request: a request ends with a record or with 404 / 503.
C11_DerivationNeverRaises ==
    pc = "done" =>
        /\ response.exc \notin {"TypeError", "KeyError"}
        /\ (results["county_drivers"].tag = "ret" /\ ~Falsy(results["county_drivers"].val)
                /\ ~Comparable(Get(Val(results["county_drivers"].val), "POP", <<0>>)))
              => (IsRecord(response) \/ NotFound(response) \/ ServiceUnavailable(response))

-----------------------------------------------------------------------------
(* Specification SpecMetrics: the pure functions of the service, each       *)
(* called once on arguments drawn from bounded sets.                        *)

MaxVariables == 7
MaxWidth == 4

Call(op, args) == [op |-> op, args |-> args, out |-> <<>>, done |-> FALSE]

\* _chunk_variables(variables, chunk_size) on the first n codes of ACS_VARS
ChunkCalls ==
    {Call("chunk_variables", [variables |-> SubSeq(ACS_VARS, 1, n), chunk_size |-> w]) :
        n \in 0..MaxVariables, w \in 1..MaxWidth}

MetricsUnchanged ==
    UNCHANGED <<pc, geo, results, upstream, early, response_data, response, cache, req, sem>>

Finish(op, out) ==
    /\ calc.op = op
    /\ ~calc.done
    /\ calc' = [calc EXCEPT !.out = out, !.done = TRUE]
    /\ MetricsUnchanged

ChunkVariables ==
    /\ calc.op = "chunk_variables"
    /\ Finish("chunk_variables", chunk_variables(calc.args.variables, calc.args.chunk_size))

RECURSIVE Concat(_)
Concat(seqs) == IF seqs = <<>> THEN <<>> ELSE Head(seqs) \o Concat(Tail(seqs))

Called(op) == calc.op = op /\ calc.done

\* C14: for n codes and a width W >= 1 the chunks are non-empty, at most W
\* long, pairwise disjoint, their concatenation is the input and there are
\* ceil(n / W) of them.
C14_ChunksPartitionTheInput ==
    Called("chunk_variables") =>
        LET variables == calc.args.variables
            W == calc.args.chunk_size
            chunks == calc.out
        IN  /\ Concat(chunks) = variables
            /\ \A k \in DOMAIN chunks : Len(chunks[k]) >= 1 /\ Len(chunks[k]) <= W
            /\ \A j, k \in DOMAIN chunks :
                  j # k => {chunks[j][i] : i \in DOMAIN chunks[j]}
                              \cap {chunks[k][i] : i \in DOMAIN chunks[k]} = {}
            /\ Len(chunks) = (Len(variables) + W - 1) \div W

\* seven codes in chunks of three: two full chunks and a rest of one
C14_Witness ==
    /\ Called("chunk_variables")
    /\ Len(calc.args.variables) = 7 /\ calc.args.chunk_size = 3
    /\ Len(calc.out) = 3 /\ Len(calc.out[3]) = 1
\* the map of a tract where every variable is 1, with some of them replaced
SampleAcs(population, edu_total, occupied, renters, male, female) ==
    [c \in {NAME} \cup {ACS_VARS[i] : i \in 1..NumAcsVars} |->
        CASE c = NAME -> <<GeographyName>>
          [] c = B01003_001E -> population
          [] c = B15003_001E -> edu_total
          [] c = B25003_001E -> occupied
          [] c = B25003_003E -> renters
          [] c = B01001_002E -> male
          [] c = B01001_026E -> female
          [] OTHER -> <<1>>]

Point(year, population) == PopulationTrendPoint(year, population, FALSE)

\* tract trends, ascending by year
SampleTrends ==
    {<<>>,
     <<Point(2023, 10)>>,
     <<Point(2019, 8), Point(2023, 10)>>,
     <<Point(2019, 0), Point(2023, 10)>>,
     <<Point(2022, 10), Point(2023, 8)>>,
     <<Point(2019, 8), Point(2022, 0), Point(2023, 10)>>,
     <<Point(2019, 0), Point(2022, 8), Point(2023, 10)>>}

\* the projection of a tract: empty, or the three years after the latest
SampleProjections ==
    {<<>>,
     <<PopulationTrendPoint(2024, 11, TRUE), PopulationTrendPoint(2025, 12, TRUE),
       PopulationTrendPoint(2026, 13, TRUE)>>}

\* _format_response_data(acs_data, trend, projection, ..., aland)
FormatCalls ==
    {Call("format_response_data",
          [acs_data |-> None, trend |-> <<>>, projection |-> <<>>, aland |-> TractLandArea])}
    \cup
    {Call("format_response_data",
          [acs_data |-> Some(SampleAcs(population, edu_total, occupied, renters, sex[1], sex[2])),
           trend |-> trend, projection |-> projection, aland |-> aland]) :
        population \in {None, <<0>>, <<10>>},
        edu_total \in {None, <<0>>, <<4>>},
        occupied \in {None, <<0>>, <<3>>},
        renters \in {None, <<1>>},
        sex \in {<<None, None>>, <<<<1>>, <<2>>>>},
        trend \in SampleTrends,
        projection \in SampleProjections,
        aland \in {0, TractLandArea}}

FormatResponseData ==
    /\ calc.op = "format_response_data"
    /\ Finish("format_response_data",
              format_response_data(calc.args.acs_data, calc.args.trend,
                                   calc.args.projection, <<>>, None,
                                   None, None, RequestAddress, calc.args.aland))

\* lines 126-152 on what the two county sources answered
DriverCalls ==
    {Call("drivers", [flows |-> f, pep |-> p]) :
        f \in FlowsResponses \cup {"nullcell"}, p \in PepResponses}

DeriveDrivers ==
    /\ calc.op = "drivers"
    /\ LET acs_flows == fetch_migration_flows(calc.args.flows).val
           pep_drivers == fetch_pep_county_components(calc.args.pep).val
       IN  Finish("drivers",
                  [migration |-> MigrationStep(acs_flows, pep_drivers),
                   natural_increase |-> NaturalIncreaseStep(pep_drivers)])

\* DataProcessor.format_response_data.safe_div_percent
safe_div_percent(numerator, denominator) ==
    IF IsNone(denominator) \/ denominator = <<0>> \/ IsNone(numerator)
    THEN [exc |-> "", val |-> None]
    ELSE [exc |-> "", val |-> Some(RoundHalfEven(numerator[1] * 1000, denominator[1]))]

\* a percentage of two variables of the dataset
RatioCalls ==
    {Call("ratio", [numerator |-> n, denominator |-> d]) :
        n \in {None, <<0>>, <<1>>, <<3>>}, d \in {None, <<0>>, <<3>>, <<8>>}}

\* the inline ratio of _format_response_data and the helper of DataProcessor
Ratio ==
    /\ calc.op = "ratio"
    /\ Finish("ratio",
              [inline |-> PercentOf(calc.args.numerator, calc.args.denominator),
               helper |-> safe_div_percent(calc.args.numerator, calc.args.denominator)])

\* what the fetch of one year can hand to the comprehension: None (the call
\* failed), an exception, a map with a null population, a map with a population
YearOutcomes(year) ==
    {Ret(None), Exc("TimeoutError"),
     Ret(Some((NAME :> <<GeographyName>>) @@ (B01003_001E :> None))),
     Ret(Some((NAME :> <<GeographyName>>)
              @@ (B01003_001E :> <<SamplePopulation("tract", year)>>)))}

TractYears == SubSeq(historical_years, 1, Len(historical_years) - 1)

\* the tract trend of a request: the assembly of the years before the latest,
\* then the rebuild with the population of the latest year
TrendCalls ==
    {Call("trend", [years |-> TractYears, year_results |-> yr, latest_population |-> lp]) :
        yr \in {f \in [1..Len(TractYears) -> UNION {YearOutcomes(TractYears[i]) :
                                                    i \in 1..Len(TractYears)}] :
                    \A i \in 1..Len(TractYears) : f[i] \in YearOutcomes(TractYears[i])},
        lp \in {None, <<SamplePopulation("tract", LATEST_ACS_YEAR)>>}}

AssembleTrend ==
    /\ calc.op = "trend"
    /\ LET historical == assemble_trend(calc.args.years, calc.args.year_results)
       IN  Finish("trend",
                  [historical |-> historical,
                   tract_trend |-> IF IsException(historical) THEN <<>>
                                   ELSE rebuild_tract_trend(historical.val,
                                                            calc.args.latest_population)])

MaxCountyPopulation == 3

\* county trends of 0 to 3 yearly points with small populations
RECURSIVE SmallTrends(_)
SmallTrends(n) ==
    IF n = 0 THEN {<<>>}
    ELSE {Append(t, Point(LATEST_ACS_YEAR - 3 + n, p)) :
              t \in SmallTrends(n - 1), p \in 0..MaxCountyPopulation}

\* the latest tract dataset: absent, without a population, with a null, zero
\* or positive one
SampleLatest ==
    {None, Some(NAME :> <<GeographyName>>), Some(B01003_001E :> None),
     Some(B01003_001E :> <<0>>), Some(B01003_001E :> <<7>>)}

ExampleTrend == <<Point(2021, 100000), Point(2022, 102000), Point(2023, 104040)>>

ProjectCalls ==
    {Call("project", [latest_tract_data |-> l, county_trend |-> t]) :
        l \in SampleLatest, t \in UNION {SmallTrends(n) : n \in 0..3}}
    \cup {Call("project", [latest_tract_data |-> Some(B01003_001E :> <<5000>>),
                           county_trend |-> ExampleTrend])}

ProjectTractPopulation ==
    /\ calc.op = "project"
    /\ Finish("project",
              project_tract_population(calc.args.latest_tract_data, calc.args.county_trend))

\* the orders in which n tasks can complete
CompletionOrders(n) ==
    {p \in [1..n -> 1..n] : \A i, j \in 1..n : p[i] = p[j] => i = j}

\* what the two chunk calls of the latest-year dataset can return: an
\* exception, nothing, or a map with the geography name the call was given
ChunkOutcomes(k) ==
    {Exc("TimeoutError"), Ret(None),
     Ret(Some((NAME :> <<GeographyName + k - 1>>) @@ (IF k = 1 THEN B01003_001E ELSE B01002_001E) :> <<10 * k>>))}

\* the fan-out results in the order of the tasks dict
FanOut(acs, pep) == [i \in 1..Len(TaskNames) |-> SampleResults(acs, pep)[TaskNames[i]]]

\* the three gathers of a request: the chunks of the latest-year dataset
\* (lines 276-278), the years of a trend (lines 547-548), the fan-out tasks
\* (lines 94-96), with the order the tasks completed in
GatherCalls ==
    {Call("gather", [site |-> "chunks", outcomes |-> <<c1, c2>>, completion_order |-> p]) :
        c1 \in ChunkOutcomes(1), c2 \in ChunkOutcomes(2), p \in CompletionOrders(2)}
    \cup
    {Call("gather", [site |-> "years", outcomes |-> yr, completion_order |-> p]) :
        yr \in {f \in [1..Len(TractYears) -> UNION {YearOutcomes(TractYears[i]) :
                                                    i \in 1..Len(TractYears)}] :
                    \A i \in 1..Len(TractYears) :
                        f[i] \in YearOutcomes(TractYears[i]) \ {Exc("TimeoutError")}},
        p \in {q \in CompletionOrders(Len(TractYears)) : q[1] # 1}}
    \cup
    {Call("gather", [site |-> "tasks", outcomes |-> FanOut(acs, pep), completion_order |-> p]) :
        acs \in {[status |-> "ok", pop |-> "int"], [status |-> "error", pop |-> "int"]},
        pep \in {"ok", "error"},
        p \in {Identity(6), [i \in 1..6 |-> 7 - i], [i \in 1..6 |-> (i % 6) + 1]}}

\* what the code after the gather makes of its results
AfterGather(site, gathered) ==
    CASE site = "chunks" -> merge_chunks(gathered)
      [] site = "years" -> assemble_trend(TractYears, gathered)
      [] OTHER -> Coordinate(RequestAddress, Val(geocode_address("ok", "ok", "ok").val),
                             [t \in Tasks |->
                                gathered[CHOOSE i \in 1..Len(TaskNames) : TaskNames[i] = t]])

Gather ==
    /\ calc.op = "gather"
    /\ Finish("gather",
              AfterGather(calc.args.site,
                          gather(calc.args.outcomes, calc.args.completion_order)))

InitMetrics ==
    /\ pc = "idle"
    /\ geo = None
    /\ results = [t \in Tasks |-> Pending]
    /\ upstream = [t \in Tasks \cup {"geocode"} |-> "pending"]
    /\ early = FALSE
    /\ response_data = None
    /\ response = NoResponse
    /\ cache = {}
    /\ req = <<>>
    /\ sem = <<>>
    /\ calc \in ChunkCalls \cup FormatCalls \cup DriverCalls \cup RatioCalls \cup TrendCalls \cup ProjectCalls \cup GatherCalls

NextMetrics ==
    \/ ChunkVariables
    \/ FormatResponseData
    \/ DeriveDrivers
    \/ Ratio
    \/ AssembleTrend
    \/ ProjectTractPopulation
    \/ Gather

SpecMetrics == InitMetrics /\ [][NextMetrics]_vars

ZeroDenominator(acs_data, code) == Get(Val(acs_data), code, <<0>>) \in {None, <<0>>}

\* C12: in a record, a derived field whose denominator is zero or whose
\* source value is missing is null, never a substituted zero: the density for
\* a land area of 0, the percentages for a zero or missing total, the
\* migration counts for a null flow variable.
C12_NullNeverZero ==
    /\ (Called("format_response_data") /\ IsRecord(calc.out)) =>
          LET record == Val(calc.out.body)
          IN  /\ calc.args.aland = 0 =>
                    record.population_density.people_per_sq_mile # Frac(0, 1)
              /\ ZeroDenominator(calc.args.acs_data, B15003_001E) =>
                    IsNone(record.demographics.percent_bachelors_or_higher)
              /\ ZeroDenominator(calc.args.acs_data, B25003_001E) =>
                    IsNone(record.housing.percent_renter_occupied)
              /\ record.sex_distribution.male + record.sex_distribution.female = 0 =>
                    IsNone(record.sex_distribution.percent_male)
    /\ (Called("drivers") /\ calc.args.flows = "nullcell"
            /\ ~IsNone(calc.out.migration.val)) =>
          Val(calc.out.migration.val).inflows # 0

\* the result is null exactly for a null or zero denominator, and otherwise
\* numerator / denominator * 100 rounded to one decimal (val is in tenths)
IsSafeRatio(result, numerator, denominator) ==
    /\ result.exc = ""
    /\ IsNone(result.val) <=> denominator \in {None, <<0>>}
    /\ (~IsNone(result.val) /\ ~IsNone(numerator) /\ ~IsNone(denominator)) =>
          LET diff == 2 * (Val(result.val) * denominator[1] - numerator[1] * 1000)
          IN  diff <= denominator[1] /\ 0 - diff <= denominator[1]

\* C13: for every (numerator, denominator) the ratio is null if and only if
\* the denominator is null or 0, and otherwise round(numerator / denominator
\* * 100, 1), for the inline ratios of the assembly and for the helper.
C13_RatioNullIffNoDenominator ==
    Called("ratio") =>
        /\ IsSafeRatio(calc.out.inline, calc.args.numerator, calc.args.denominator)
        /\ IsSafeRatio(calc.out.helper, calc.args.numerator, calc.args.denominator)

StrictlyAscending(trend) ==
    \A i \in 1..(Len(trend) - 1) : trend[i].year < trend[i + 1].year

\* the fetch of year i succeeded with a population
YearSucceeded(year_results, i) ==
    /\ year_results[i].tag = "ret"
    /\ year_results[i].val # None
    /\ Val(year_results[i].val)[B01003_001E] # None

RECURSIVE Power(_, _)
Power(b, k) == IF k = 0 THEN 1 ELSE b * Power(b, k - 1)

\* the product of the positive prior values of the pairs (i-1, i), i <= upto
RECURSIVE PriorProduct(_, _)
PriorProduct(county_trend, upto) ==
    IF upto < 2 THEN 1
    ELSE PriorProduct(county_trend, upto - 1)
            * (IF county_trend[upto - 1].population > 0
               THEN county_trend[upto - 1].population ELSE 1)

\* the sum of population[i] / population[i-1] over the pairs with a positive
\* prior value, as a numerator over the common denominator d
RECURSIVE RatioSum(_, _, _)
RatioSum(county_trend, d, upto) ==
    IF upto < 2 THEN 0
    ELSE RatioSum(county_trend, d, upto - 1)
            + (IF county_trend[upto - 1].population > 0
               THEN county_trend[upto].population
                        * (d \div county_trend[upto - 1].population)
               ELSE 0)

PositivePairs(county_trend) ==
    {i \in 2..Len(county_trend) : county_trend[i - 1].population > 0}

\* p is the integer nearest to n / d (d > 0), the even one of two at a tie
IsRoundOf(p, n, d) ==
    LET twice == 2 * (p * d - n)
    IN  \/ -d < twice /\ twice < d
        \/ twice \in {-d, d} /\ p % 2 = 0

NoBasePopulation(latest_tract_data) ==
    \/ latest_tract_data = None
    \/ B01003_001E \notin DOMAIN Val(latest_tract_data)
    \/ Val(latest_tract_data)[B01003_001E] \in {None, <<0>>}

\* the three points of a projection from base and the county trend
IsProjectionOf(projection, latest_tract_data, county_trend) ==
    /\ Len(projection) = ProjectionYears
    /\ \A k \in 1..ProjectionYears :
          /\ projection[k].year = LATEST_ACS_YEAR + k
          /\ projection[k].is_projection = TRUE
          /\ ~NoBasePopulation(latest_tract_data) =>
                LET base == Val(latest_tract_data)[B01003_001E][1]
                    d == PriorProduct(county_trend, Len(county_trend))
                    n == RatioSum(county_trend, d, Len(county_trend))
                    c == Cardinality(PositivePairs(county_trend))
                IN  IF county_trend = ExampleTrend
                    THEN projection[k].population = <<5100, 5202, 5306>>[k]
                    ELSE IsRoundOf(projection[k].population,
                                   base * Power(n, k), Power(c * d, k))

\* C16 (as stated): the projection is empty when the county trend has fewer
\* than 2 points or no consecutive pair has a positive prior value; otherwise
\* it is exactly 3 points for the 3 years after the latest data year, flagged
\* is_projection, with populations round(base * f^k).
C16_EmptyOnlyForShortOrFlatTrend ==
    Called("project") =>
        IF Len(calc.args.county_trend) < 2 \/ PositivePairs(calc.args.county_trend) = {}
        THEN calc.out = <<>>
        ELSE IsProjectionOf(calc.out, calc.args.latest_tract_data, calc.args.county_trend)

\* C16 (amended): the projection is also empty when the latest tract dataset
\* or its population is missing or 0; it is empty when the county trend has
\* fewer than 2 points or no consecutive pair has a positive prior value;
\* otherwise it is exactly 3 points for the 3 years after the latest data
\* year, flagged is_projection, with populations round(base * f^k), f the
\* mean of population[i] / population[i-1] over the pairs with positive prior.
C16_ProjectionFromBaseAndMeanFactor ==
    Called("project") =>
        IF \/ NoBasePopulation(calc.args.latest_tract_data)
           \/ Len(calc.args.county_trend) < 2
           \/ PositivePairs(calc.args.county_trend) = {}
        THEN calc.out = <<>>
        ELSE IsProjectionOf(calc.out, calc.args.latest_tract_data, calc.args.county_trend)

\* a projection over a trend with one pair of positive prior and one without,
\* whose populations are not whole multiples of the base
C16_Witness ==
    /\ Called("project")
    /\ Len(calc.out) = ProjectionYears
    /\ Len(calc.args.county_trend) = 3
    /\ Cardinality(PositivePairs(calc.args.county_trend)) = 2
    /\ calc.args.county_trend[1].population = 2
    /\ calc.args.county_trend[2].population = 3
    /\ calc.out[1].population % 7 # 0


\* C17: in a record, the growth metrics of a trend with fewer than 2 points
\* are all null with period_years 5; with at least 2 points absolute_change
\* is last - first, cagr is set exactly when first > 0 and the year span > 0,
\* yoy_growth exactly when the second-to-last population > 0, and
\* period_years is 5 whatever the span.
C17_GrowthMetrics ==
    (Called("format_response_data") /\ IsRecord(calc.out)) =>
        LET growth == Val(calc.out.body).growth
            trend == calc.args.trend
            n == Len(trend)
        IN  /\ growth.period_years = 5
            /\ n < 2 => /\ growth.cagr = None
                        /\ growth.yoy_growth = None
                        /\ growth.absolute_change = None
            /\ n >= 2 =>
                  /\ growth.absolute_change
                        = Some(trend[n].population - trend[1].population)
                  /\ growth.cagr # None
                        <=> (trend[1].population > 0 /\ trend[n].year - trend[1].year > 0)
                  /\ growth.cagr # None =>
                        /\ Val(growth.cagr).end_pop = trend[n].population
                        /\ Val(growth.cagr).start_pop = trend[1].population
                        /\ Val(growth.cagr).periods = trend[n].year - trend[1].year
                  /\ growth.yoy_growth # None <=> trend[n - 1].population > 0

\* a record over a three-point trend of span 4 whose first population is
\* positive and whose second-to-last is 0: cagr set, yoy_growth null
C17_Witness ==
    /\ Called("format_response_data")
    /\ IsRecord(calc.out)
    /\ Len(calc.args.trend) = 3
    /\ calc.args.trend[1].population > 0
    /\ calc.args.trend[2].population = 0
    /\ calc.args.trend[3].year - calc.args.trend[1].year = 4
    /\ Val(calc.out.body).growth.cagr # None
    /\ Val(calc.out.body).growth.yoy_growth = None
    /\ Val(calc.out.body).growth.absolute_change = <<2>>


\* what the two county tasks handed to the coordinator in a "drivers" call
DriverFlows == fetch_migration_flows(calc.args.flows).val
DriverPep == fetch_pep_county_components(calc.args.pep).val

\* migration is null whenever an input is missing or the county population is 0
MigrationNullGuard(migration) ==
    (\/ Falsy(DriverPep)
     \/ Falsy(DriverFlows)
     \/ Get(Val(DriverPep), "POP", <<0>>) = <<0>>) => migration = None

\* every field but the rate comes from its source, gross is the sum
MigrationFromSources(m) ==
    /\ <<m.net_migration>> = Val(DriverFlows)["MOVEDNET"]
    /\ <<m.inflows>> = Val(DriverFlows)["MOVEDIN"]
    /\ <<m.outflows>> = Val(DriverFlows)["MOVEDOUT"]
    /\ <<m.domestic_migration>> = Val(DriverPep)["DOMESTICMIG"]
    /\ <<m.international_migration>> = Val(DriverPep)["INTERNATIONALMIG"]
    /\ m.gross_migration = m.inflows + m.outflows

\* C18 (as stated): migration is null in full whenever the components result
\* or the flow result is missing or the county population is 0; when present
\* every field comes from its source, gross_migration = inflows + outflows and
\* net_migration_rate = net_migration / county_population * 100 (the rate is
\* held in hundredths of a percent).
C18_MigrationRateExact ==
    (Called("drivers") /\ calc.out.migration.exc = "") =>
        /\ MigrationNullGuard(calc.out.migration.val)
        /\ calc.out.migration.val # None =>
              LET m == Val(calc.out.migration.val)
              IN  /\ MigrationFromSources(m)
                  /\ m.net_migration_rate * Val(DriverPep)["POP"][1]
                        = m.net_migration * 100 * 100

\* C18 (amended): the same, with net_migration_rate = net_migration /
\* county_population * 100 rounded to 2 decimals.
C18_MigrationAllOrNothing ==
    (Called("drivers") /\ calc.out.migration.exc = "") =>
        /\ MigrationNullGuard(calc.out.migration.val)
        /\ calc.out.migration.val # None =>
              LET m == Val(calc.out.migration.val)
              IN  /\ MigrationFromSources(m)
                  /\ IsRoundOf(m.net_migration_rate, m.net_migration * 100 * 100,
                               Val(DriverPep)["POP"][1])

\* both inputs arrived, the county population is positive, and the rate
\* 4 / 300 * 100 is not a whole number of hundredths
C18_Witness ==
    /\ Called("drivers")
    /\ calc.args.flows = "ok"
    /\ calc.args.pep = "ok"
    /\ calc.out.migration.val # None
    /\ Val(calc.out.migration.val).gross_migration = 20
    /\ Val(calc.out.migration.val).net_migration_rate = 133


\* C19: natural increase is null whenever migration is null, and when present
\* its rate is (births - deaths) / county_population * 1000 (held in
\* hundredths, to the rounding of 2 decimals) over the births and deaths of
\* the same record.
C19_NaturalIncreaseGuardedLikeMigration ==
    (Called("drivers") /\ calc.out.migration.exc = "" /\ calc.out.natural_increase.exc = "") =>
        /\ calc.out.migration.val = None => calc.out.natural_increase.val = None
        /\ calc.out.natural_increase.val # None =>
              LET n == Val(calc.out.natural_increase.val)
              IN  IsRoundOf(n.natural_increase_rate, (n.births - n.deaths) * 1000 * 100,
                            Val(DriverPep)["POP"][1])


\* request w stored a record computed while an optional source was absent
StoredDegraded(w) == req[w].commits > 0 /\ req[w].failed_optional # {}

\* request r was answered from the cache with the record request w stored
AnsweredWithRecordOf(r, w) ==
    /\ req[r].pc = "done"
    /\ req[r].found = "valid"
    /\ CacheKey(req[r].address) = CacheKey(req[w].address)
    /\ ~IsNone(req[w].response_data)
    /\ req[r].response = Returned(Val(req[w].response_data))

\* C20: a request is never answered from the cache with the record another
\* request stored while one of its optional sources had failed (so the source
\* can be retried), and no request gathers its sources more than once.
C20_DegradedRecordNotServedFromCache ==
    /\ \A r \in Requests : \A w \in Requests \ {r} :
          StoredDegraded(w) => ~AnsweredWithRecordOf(r, w)
    /\ \A r \in Requests : req[r].fetches <= 1 /\ req[r].geocodes <= 1


\* the words of an address: its maximal runs of non-space characters, with
\* the letter case folded
RECURSIVE Words(_, _)
Words(a, word) ==
    LET closed == IF word = <<>> THEN <<>> ELSE <<word>>
    IN  IF a = <<>> THEN closed
        ELSE IF a[1] = " " THEN closed \o Words(Tail(a), <<>>)
        ELSE Words(Tail(a), Append(word, IF a[1] \in {"M", "m"} THEN "m" ELSE a[1]))

\* two addresses differ at most in letter case, leading or trailing
\* whitespace, or the length of runs of internal whitespace
SameAddress(a, b) == Words(a, <<>>) = Words(b, <<>>)

\* C21: the key depends on the normalized address and the schema tag only:
\* two addresses get the same key exactly when they differ at most in letter
\* case and whitespace; once a request has stored its record, the lookup of
\* any such address finds a row that validates (a hit); and a request finds
\* a row only under a key that ends in the current schema tag, never one
\* written under another tag.
C21_KeyIsNormalizedAddressAndTag ==
    /\ \A a, b \in Addresses : SameAddress(a, b) <=> CacheKey(a) = CacheKey(b)
    /\ \A r, w \in Requests :
          (/\ Finished(w) /\ Wrote(w) /\ IsRecord(req[w].response)
           /\ req[r].pc = "lookup"
           /\ SameAddress(req[r].address, req[w].address)) =>
              LET cached_data == CacheFirst(cache, CacheKey(req[r].address))
              IN  /\ ~IsNone(cached_data)
                  /\ model_validate(Val(cached_data).response_data) = req[w].response_data
    /\ \A r \in Requests :
          (req[r].pc \notin {"idle", "lookup"} /\ req[r].found # "nothing") =>
              \E row \in cache :
                  /\ row.address_key[2] = "|tract|5_year_projected_v3"
                  /\ SameAddress(row.address_key[1], req[r].address)

\* the table held a row of another schema tag for the address, a request
\* missed it, computed and stored a record, and a request for the same
\* address in another spelling was answered from that row
C21_Witness ==
    \E r, w \in Requests :
        /\ \E row \in cache : /\ row.address_key[2] # "|tract|5_year_projected_v3"
                              /\ SameAddress(row.address_key[1], req[w].address)
        /\ Finished(w) /\ Wrote(w) /\ IsRecord(req[w].response)
        /\ req[w].found = "nothing"
        /\ Finished(r) /\ req[r].found = "valid"
        /\ req[r].address # req[w].address
        /\ req[r].response = Returned(Val(req[w].response_data))


\* C22: with no walkability credential the walkability task ends with None,
\* not with an exception, and a record the request returns has walkability
\* null.  (Settings has no walkability field, so no run has a credential.)
C22_NoCredentialIsSilentNone ==
    /\ results["walkability"].tag # "pending" => results["walkability"] = Ret(None)
    /\ (pc = "done" /\ IsRecord(response)) => Val(response.body).walkability = None


\* C23: the assembly fails only for an absent VariableMap, and then with the
\* not-found condition; for every present VariableMap, whatever is null in
\* it, the assembly returns a record.
C23_AssemblyFailsOnlyWithoutVariableMap ==
    Called("format_response_data") =>
        IF Falsy(calc.args.acs_data) THEN NotFound(calc.out) ELSE IsRecord(calc.out)


\* C27: the total_population of a record is the population of the last
\* projected point when the projection is not empty, else that of the latest
\* point of the trend, and the latest-year population variable only when
\* trend and projection are both empty.
C27_TotalPopulationIsTheLastPoint ==
    (Called("format_response_data") /\ IsRecord(calc.out)) =>
        LET trend == calc.args.trend
            projection == calc.args.projection
            total_population == Val(calc.out.body).total_population
        IN  /\ projection # <<>> =>
                  total_population = projection[Len(projection)].population
            /\ (projection = <<>> /\ trend # <<>>) =>
                  total_population = trend[Len(trend)].population
            /\ (projection = <<>> /\ trend = <<>>) =>
                  <<total_population>> = Val(calc.args.acs_data)[B01003_001E]

\* a record over a trend that ends at 10 and a projection that ends at 13
C27_Witness ==
    /\ Called("format_response_data")
    /\ IsRecord(calc.out)
    /\ Len(calc.args.trend) = 3
    /\ calc.args.trend[3].population = 10
    /\ Len(calc.args.projection) = 3
    /\ Val(calc.args.acs_data)[B01003_001E] = <<10>>
    /\ Val(calc.out.body).total_population = 13


\* the request ended in a declared failure: 404 (no geocoding match, no
\* VariableMap) or 503 (a mandatory source failed)
DeclaredFailure(r) == Finished(r) /\ (NotFound(req[r].response) \/ ServiceUnavailable(req[r].response))

\* the row was in the table before the first request, or it is the record of
\* a request for its key whose pipeline ran to a record and stored it
RowOfSuccessfulRun(row) ==
    \/ row.response_data = StalePayload
    \/ \E w \in Requests :
          /\ Wrote(w)
          /\ ~IsNone(req[w].response_data)
          /\ row.address_key = CacheKey(req[w].address)
          /\ row.response_data = model_dump_json(Val(req[w].response_data))

\* C25: a request that ends in a declared failure has stored nothing, and
\* every row of the table is the record of a pipeline run for its key that
\* succeeded (or was there before the first request).
C25_FailureLeavesCacheUnchanged ==
    /\ \A r \in Requests : DeclaredFailure(r) => req[r].commits = 0
    /\ \A row \in cache : RowOfSuccessfulRun(row)

\* a request whose geocoding failed and a request whose mandatory source
\* failed have both ended, for one key, and the table is still empty
C25_Witness ==
    \E r, q \in Requests :
        /\ DeclaredFailure(r) /\ req[r].geocodes = 1 /\ req[r].fetches = 0
        /\ DeclaredFailure(q) /\ ServiceUnavailable(req[q].response) /\ req[q].fetches = 1
        /\ CacheKey(req[r].address) = CacheKey(req[q].address)
        /\ cache = {}


-----------------------------------------------------------------------------
(* Liveness.  Every step of a request is a collaborator call that returns  *)
(* or times out (AsyncClient(timeout=15.0)) or a synchronous computation,   *)
(* and asyncio wakes a waiter of the semaphore when a permit is released:   *)
(* weak fairness of every step of the limiter.  A request itself only      *)
(* moves forward (RequestAdvances) and is never stuck before its end        *)
(* (RequestNotStuck), so under the same fairness it completes.              *)

SpecLimiterLive == InitLimiter /\ [][NextLimiter]_vars /\ WF_vars(NextLimiter)

\* permits are neither lost nor created: each fetch holds at most the one
\* permit it acquired
LimiterPermitsConserved ==
    \A s \in Services :
        sem[s].started =>
            /\ sem[s].value >= 0
            /\ sem[s].value + sem[s].holding["acs"] + sem[s].holding["flows"]
                  + sem[s].holding["pep"] = SemaphoreCapacity

\* all fetches of the service have left the semaphore and every permit is free
LimiterIdle(s) ==
    /\ \A k \in FetchKinds : sem[s].waiting[k] = 0 /\ sem[s].holding[k] = 0
    /\ sem[s].value = SemaphoreCapacity

\* more fetches than permits: some wait while all permits are held
LimiterSaturated ==
    \E s \in Services : sem[s].started /\ sem[s].value = 0 /\ sem[s].waiting["acs"] > 0

\* once started, the fetches of a service all get through the semaphore
LimiterDrains == \A s \in Services : sem[s].started ~> LimiterIdle(s)

\* how far the request has come: its position, then the tasks settled
RequestRank ==
    7 * (CASE pc = "idle" -> 0 [] pc = "lookup" -> 1 [] pc = "geocode" -> 2
           [] pc = "gather" -> 3 [] pc = "commit" -> 4 [] OTHER -> 5)
    + Cardinality({t \in Tasks : results[t].tag # "pending"})

\* every step of a request takes it forward
RequestAdvances == [][RequestRank' > RequestRank]_vars

\* a request that has not completed is at a position whose step has its
\* guard satisfied: a pending task can settle, or the gather is done
RequestNotStuck ==
    pc # "done" =>
        \/ pc \in {"lookup", "geocode", "commit"}
        \/ pc = "gather" /\ ((\E t \in Tasks : results[t].tag = "pending") \/ GatherDone(results))

\* C26: a request completes with a record or a declared failure (404 or
\* 503), whatever its collaborators answered.
C26_RequestCompletesWithRecordOrDeclaredFailure ==
    pc = "done" => (IsRecord(response) \/ NotFound(response) \/ ServiceUnavailable(response))


====
